---- MODULE Spec2Model ----
(***************************************************************************)
(* A model of the resilient PDF render service of pdfgen-js:               *)
(* PdfRenderServiceResilient (src/src/services/cache-service.js), the      *)
(* input validation of its worker (src/src/workers/pdf-worker-ultra.js)    *)
(* and the DeadLetterQueue the server attaches to the task-failed event    *)
(* (src/src/middleware/request-tracker.js, src/unnamed/part_003).          *)
(*                                                                         *)
(* The coordinator is single-threaded JavaScript: one action is one        *)
(* macrotask together with the microtasks (promise continuations) it       *)
(* triggers.  An executeTask() call suspended at an await is a record in   *)
(* the bag loops.  Time is Date.now() in milliseconds since construction.  *)
(***************************************************************************)
EXTENDS Integers, Sequences, FiniteSets, Bags, TLC

VARIABLES
    tasks,               \* taskId -> taskInfo (renderToBuffer's object; shared by every holder)
    activeTasks,         \* this.activeTasks: the set of its keys
    retryQueue,          \* this.retryQueue: sequence of task ids (references to taskInfo)
    taskExecutionTimes,  \* this.taskExecutionTimes: taskId -> startTime
    stuckTasks,          \* this.stuckTasks
    stats,               \* this.stats
    lastWorkerCrash,     \* this.lastWorkerCrash
    loops,               \* suspended executeTask() calls (a bag of records)
    caller,              \* taskId -> the state of the promise renderToBuffer returned
    dlq,                 \* deadLetterQueue.queue of the server
    threads,             \* piscina.threads.length
    now,                 \* Date.now()
    hist,                \* taskId -> per-task history counters (observation only)
    crashesThisDrop,     \* worker checks that counted a crash since the pool last fell below minThreads (observation only)
    options,             \* this.options, where the model varies them
    life,                \* the service's interval timers, their handles, and how far close() has got
    dlqOptions,          \* deadLetterQueue.options
    dlqAdded,            \* what was added to the dead letter queue since it was last empty by clear() (observation only)
    activeRequests,      \* requestTracker.activeRequests: id -> request
    completedRequests,   \* requestTracker.completedRequests
    failedRequests,      \* requestTracker.failedRequests
    trackerStats,        \* requestTracker.stats
    stream,              \* one renderToStream() call and the sink it writes to
    job,                 \* one generatePdfBuffer() call inside a worker
    host,                \* os.cpus().length, the options a default service derives from it, and what getStats reported
    returned,            \* what the last getRecent() or failRequest() call returned
    closures             \* requestId -> what the tracker middleware keeps for the request: its completed flag, its timeout timer, whether the response was sent

(* what the other specifications look at *)
partVars == <<stream, job, host, returned, closures>>

(* the objects the server keeps beside the render service *)
serverVars == <<dlqOptions, dlqAdded, activeRequests, completedRequests,
                failedRequests, trackerStats, partVars>>

(* the render service *)
serviceVars == <<tasks, activeTasks, retryQueue, taskExecutionTimes, stuckTasks, stats,
                 lastWorkerCrash, loops, caller, threads, hist, crashesThisDrop,
                 options, life>>

vars == <<tasks, activeTasks, retryQueue, taskExecutionTimes, stuckTasks, stats,
          lastWorkerCrash, loops, caller, dlq, threads, now, hist, crashesThisDrop,
          options, life, serverVars>>

-----------------------------------------------------------------------------
(* Bounds of the model *)

MaxTasks == 1          \* renderToBuffer calls explored by Spec
MaxBurstTasks == 2     \* renderToBuffer calls explored by SpecBurst
MaxCrashChecks == 2    \* worker checks that find the pool below minThreads
MaxTime == 3000        \* the clock stops here
TickMs == 1000         \* granularity of the clock
MaxChunks == 3         \* data events of one render in SpecWorker
MaxCpuCount == 64      \* os.cpus().length in SpecHost
MaxBufLen == 4         \* bytes of a rendered buffer in SpecStream
MaxRequests == 2       \* createRequest calls in SpecTracker
MaxStarts == 3         \* startRequest calls per request in SpecTracker
MaxRetried == 2        \* failRequest calls that ask for a retry in SpecTracker
MaxDlqAdds == 4        \* add() calls between two clear() calls in SpecDLQ
MaxRecent == 3         \* largest limit given to getRecent
MaxDlqIds == 3        \* task ids of the entries added in SpecDLQ
LiveMaxTime == 1000    \* the clock of SpecLive stops here

(* Options the model passes to the constructor to keep the pool small:
   one worker, one queue slot *)
minThreads == 1
maxThreads == 1
maxQueue == 1

(* What a caller may pass as options.hangThreshold; 0 stands for "not given" *)
GivenHangThresholds == {0, 500, 1000}

(* options.timeout, which the callers of the model pass with every document *)
callerTimeout == 2000

(* Options left at their defaults *)
maxRetries == 3
retryDelay == 1000
retryBackoffNum == 3   \* retryBackoff = 1.5 = 3/2
retryBackoffDen == 2
concurrentTasksPerWorker == 1
hangThresholdDefault == 45000
taskTimeoutDefault == 30000
GENERATION_TIMEOUT == 30000
PDF_SIZE_LIMIT == 10485760
dlqMaxSize == 1000

(* What a caller may pass as options.maxRetries; 0 stands for "not given" *)
TaskMaxRetries == {0, 1, 2}

(* renderToStream: options.chunkSize || 128 * 1024; 0 is an absent option *)
defaultChunkSize == 131072
GivenChunkSizes == {0, 1, 2, 3}

(* writableHighWaterMark of the sinks the model passes *)
HighWaterMarks == {1, 2, 4}

(* options.timeout of a job, 0 for none, and the sizes of the chunks a render
   emits *)
GivenJobTimeouts == {0, 1000, 2000}
ChunkLengths == {1, PDF_SIZE_LIMIT \div 2, PDF_SIZE_LIMIT}

(* close(): the timer it races drain() against *)
closeRaceMs == 5000

(* Options the model passes to the RequestTracker *)
trackerMaxRetries == 2
trackerMaxAge == 1000

(* What the server may pass as maxSize to the DeadLetterQueue of SpecDLQ;
   0 stands for "not given" *)
GivenDlqMaxSizes == {0, 1, 2}

(* options.maxRetries of the callers of SpecLive *)
LiveMaxRetries == {1, 2}

(* Payloads: a valid document, one without content, one above the input ceiling *)
Payloads == {"valid", "no_content", "too_large"}

NoTime == -1           \* null timestamp

NoLoop == [task |-> 0]   \* no job: the exiting worker was idle

-----------------------------------------------------------------------------
(* Pure helpers *)

RECURSIVE Pow(_, _)
Pow(b, e) == IF e <= 0 THEN 1 ELSE b * Pow(b, e - 1)

(* calculateRetryDelay(attempt) = retryDelay * retryBackoff^(attempt-1), kept
   as the exact fraction CalcNum/CalcDen (1.5^n is exact in a double). *)
CalcNum(attempt) ==
    IF attempt >= 1 THEN retryDelay * Pow(retryBackoffNum, attempt - 1)
                    ELSE retryDelay * Pow(retryBackoffDen, 1 - attempt)

CalcDen(attempt) ==
    IF attempt >= 1 THEN Pow(retryBackoffDen, attempt - 1)
                    ELSE Pow(retryBackoffNum, 1 - attempt)

(* elapsed >= calculateRetryDelay(attempt) *)
DelayReached(elapsed, attempt) == elapsed * CalcDen(attempt) >= CalcNum(attempt)

(* validateDocDefinition in the worker: the message it throws, or "" *)
validateDocDefinition(payload) ==
    CASE payload = "no_content" -> "Missing content"
      [] payload = "too_large"  -> "Document definition too large"
      [] OTHER                  -> ""

MapSet(f, k, v) == [x \in DOMAIN f \cup {k} |-> IF x = k THEN v ELSE f[x]]

MapDel(f, k) == [x \in DOMAIN f \ {k} |-> f[x]]

-----------------------------------------------------------------------------
(* The coordinator state as one record, so that a handler is a function on it *)

Svc ==
    [tasks |-> tasks, activeTasks |-> activeTasks, retryQueue |-> retryQueue,
     taskExecutionTimes |-> taskExecutionTimes, stuckTasks |-> stuckTasks,
     stats |-> stats, loops |-> loops, caller |-> caller, dlq |-> dlq, hist |-> hist]

Becomes(s) ==
    /\ tasks' = s.tasks
    /\ activeTasks' = s.activeTasks
    /\ retryQueue' = s.retryQueue
    /\ taskExecutionTimes' = s.taskExecutionTimes
    /\ stuckTasks' = s.stuckTasks
    /\ stats' = s.stats
    /\ loops' = s.loops
    /\ caller' = s.caller
    /\ dlq' = s.dlq
    /\ hist' = s.hist

NoHist == [dispatches |-> 0, started |-> 0, succeeded |-> 0, retries |-> 0,
           recovered |-> 0, renders |-> 0, failedEvents |-> 0,
           recordFlags |-> 0, sweptOver |-> FALSE]

Pending == [st |-> "pending", text |-> "", n |-> 0, cause |-> ""]

-----------------------------------------------------------------------------
(* The worker pool (Piscina), seen from the coordinator *)

JobCount(L, j) ==
    LET S == {r \in BagToSet(L) : r.pc = "await_run" /\ r.job = j}
    IN  BagCardinality([r \in S |-> L[r]])

(* piscina.run(): a free worker takes the job, else it waits in the queue,
   else (queue at maxQueue) the returned promise is rejected at once. *)
piscinaRun(L) ==
    IF JobCount(L, "queued") = 0
       /\ JobCount(L, "running") < threads * concurrentTasksPerWorker
    THEN "running"
    ELSE IF JobCount(L, "queued") < maxQueue THEN "queued" ELSE "refused"

QueueFullMsg == "Task queue is at limit"
WorkerExitMsg == "Worker exited"
RenderFailedMsg == "PDF Worker Error: render failed"
(* what a dispatch rejects with when the worker's generation timer fires: the
   ReferenceError its callback throws (see onTimeout), which ends the thread *)
TimeoutMsg == "pdfDoc is not defined"
AbortMsg == "The task has been aborted"

(* generatePdf in the worker: the message it rejects with for this payload *)
WorkerErrorMsg(payload) ==
    CASE payload = "no_content" -> "PDF Worker Error: Missing content"
      [] payload = "too_large"  -> "PDF Worker Error: Document definition too large"
      [] OTHER                  -> RenderFailedMsg

-----------------------------------------------------------------------------
(* An add() that makes room by dropping what it has just pushed *)
DLQAddEvictsNewest(queue, entry, maxSize) ==
    LET q == Append(queue, entry)
    IN  IF Len(q) > maxSize THEN SubSeq(q, 1, Len(q) - 1) ELSE q

(* DeadLetterQueue.add *)
DLQAdd(queue, entry, maxSize) ==
    LET q == Append(queue, entry)
    IN  IF Len(q) > maxSize THEN Tail(q) ELSE q

(* the server's task-failed listener *)
OnTaskFailed(s, ev) ==
    [s EXCEPT !.dlq = DLQAdd(@, [taskId |-> ev.taskId, attempts |-> ev.attempts,
                                 dlqReason |-> ev.error],
                             dlqMaxSize),
              !.hist[ev.taskId].failedEvents = @ + 1]

(* updateStats(duration, attempts) *)
maxTimings == 1000

(* An updateStats that never shifts: the buffer keeps its oldest entries *)
updateStatsKeepsOldest(st, duration) ==
    [st EXCEPT !.renders = @ + 1,
               !.totalTime = @ + duration,
               !.minTime = IF @ = NoTime \/ duration < @ THEN duration ELSE @,
               !.maxTime = IF duration > @ THEN duration ELSE @,
               !.timings = Append(@, duration)]

updateStats(st, duration) ==
    [st EXCEPT !.renders = @ + 1,
               !.totalTime = @ + duration,
               !.minTime = IF @ = NoTime \/ duration < @ THEN duration ELSE @,
               !.maxTime = IF duration > @ THEN duration ELSE @,
               !.timings = Append(IF Len(@) >= maxTimings THEN Tail(@) ELSE @, duration)]

(* a setInterval timer with this callback is registered *)
Live(callback) == \E timer \in life.intervals : timer.callback = callback

(* the callback has run; remembered when close() had completed before *)
Fired(callback) ==
    IF life.closePc = "closed"
    THEN [life EXCEPT !.ranAfterClose = @ \cup {callback}]
    ELSE life

-----------------------------------------------------------------------------
(* executeTask, piece by piece *)

(* piscina.run() with the task's signal: an aborted signal rejects at once *)
dispatch(s, t) == IF s.tasks[t].aborted THEN "aborted" ELSE piscinaRun(s.loops)

(* A loop head that lets one dispatch too many through (<= for <) *)
BeginLoopOffByOne(s, t, origin) ==
    LET ti == s.tasks[t]
    IN  IF ti.attempts <= ti.maxRetries
        THEN [task |-> t, origin |-> origin, pc |-> "await_run",
              job |-> dispatch(s, t), attemptNo |-> ti.attempts + 1,
              since |-> IF dispatch(s, t) = "running" THEN now ELSE NoTime,
              delayK |-> 0]
        ELSE [task |-> t, origin |-> origin, pc |-> "exhausted",
              job |-> "none", attemptNo |-> ti.attempts,
              since |-> NoTime, delayK |-> 0]

(* The head of the while loop: either the next dispatch, or the loop ends and
   "Max retries exhausted" is about to be thrown. *)
BeginLoop(s, t, origin) ==
    LET ti == s.tasks[t]
    IN  IF ti.attempts < ti.maxRetries
        THEN [task |-> t, origin |-> origin, pc |-> "await_run",
              job |-> dispatch(s, t), attemptNo |-> ti.attempts + 1,
              since |-> IF dispatch(s, t) = "running" THEN now ELSE NoTime,
              delayK |-> 0]
        ELSE [task |-> t, origin |-> origin, pc |-> "exhausted",
              job |-> "none", attemptNo |-> ti.attempts,
              since |-> NoTime, delayK |-> 0]

BeginAttempt(s, t, origin) ==
    LET l == BeginLoop(s, t, origin)
    IN  IF l.pc = "await_run"
        THEN [s EXCEPT !.tasks[t].attempts = @ + 1,
                       !.tasks[t].lastAttemptAt = now,
                       !.taskExecutionTimes = MapSet(@, t, now),
                       !.loops = @ (+) SetToBag({l}),
                       !.hist[t].dispatches = @ + 1,
                       !.hist[t].recordFlags = 0,
                       !.hist[t].sweptOver = FALSE,
                       !.hist[t].started = IF l.job = "running" THEN @ + 1 ELSE @]
        ELSE [s EXCEPT !.loops = @ (+) SetToBag({l})]

(* executeTask's promise rejects with err: renderToBuffer's catch for the
   caller's loop, the .catch of processRetryQueue for a sweep's loop. *)
Throw(s, l, err) ==
    LET t  == l.task
        ev == [taskId |-> t, attempts |-> s.tasks[t].attempts, error |-> err]
        s1 == [s EXCEPT !.activeTasks = @ \ {t}]
    IN  IF l.origin = "caller"
        THEN OnTaskFailed([s1 EXCEPT !.stats.errors = @ + 1,
                                     !.caller[t] = [st |-> "rejected", text |-> err.text,
                                                    n |-> err.n, cause |-> err.cause]],
                          ev)
        ELSE OnTaskFailed(s1, ev)

(* A catch block that gives up one attempt early *)
FailAttemptGivesUpEarly(s, l, msg) ==
    LET t  == l.task
        ti == s.tasks[t]
        s1 == [s EXCEPT !.taskExecutionTimes = MapDel(@, t),
                        !.tasks[t].errors =
                            Append(@, [attempt |-> ti.attempts, error |-> msg,
                                       wasStuck |-> t \in s.stuckTasks]),
                        !.stuckTasks = @ \ {t},
                        !.loops = @ (-) SetToBag({l})]
    IN  IF ti.attempts + 1 < ti.maxRetries
        THEN [s1 EXCEPT !.stats.retries = @ + 1,
                        !.hist[t].retries = @ + 1,
                        !.loops = @ (+) SetToBag({[l EXCEPT !.pc = "await_delay",
                                                            !.job = "none",
                                                            !.since = now,
                                                            !.delayK = ti.attempts]})]
        ELSE Throw(s1, l, [text |-> "Task failed after", n |-> ti.maxRetries, cause |-> msg])

(* A catch block that records no attempt as stuck *)
FailAttemptForgetsStuck(s, l, msg) ==
    LET t  == l.task
        ti == s.tasks[t]
        s1 == [s EXCEPT !.taskExecutionTimes = MapDel(@, t),
                        !.tasks[t].errors =
                            Append(@, [attempt |-> ti.attempts, error |-> msg,
                                       wasStuck |-> FALSE]),
                        !.stuckTasks = @ \ {t},
                        !.loops = @ (-) SetToBag({l})]
    IN  IF ti.attempts < ti.maxRetries
        THEN [s1 EXCEPT !.stats.retries = @ + 1,
                        !.hist[t].retries = @ + 1,
                        !.loops = @ (+) SetToBag({[l EXCEPT !.pc = "await_delay",
                                                            !.job = "none",
                                                            !.since = now,
                                                            !.delayK = ti.attempts]})]
        ELSE Throw(s1, l, [text |-> "Task failed after", n |-> ti.maxRetries, cause |-> msg])

(* A catch block that leaves the stuck flag of the failed attempt in place *)
FailAttemptKeepsStuck(s, l, msg) ==
    LET t  == l.task
        ti == s.tasks[t]
        s1 == [s EXCEPT !.taskExecutionTimes = MapDel(@, t),
                        !.tasks[t].errors =
                            Append(@, [attempt |-> ti.attempts, error |-> msg,
                                       wasStuck |-> t \in s.stuckTasks]),
                        !.loops = @ (-) SetToBag({l})]
    IN  IF ti.attempts < ti.maxRetries
        THEN [s1 EXCEPT !.stats.retries = @ + 1,
                        !.hist[t].retries = @ + 1,
                        !.loops = @ (+) SetToBag({[l EXCEPT !.pc = "await_delay",
                                                            !.job = "none",
                                                            !.since = now,
                                                            !.delayK = ti.attempts]})]
        ELSE Throw(s1, l, [text |-> "Task failed after", n |-> ti.maxRetries, cause |-> msg])

(* the catch block of executeTask, for a dispatch that rejected with msg *)
FailAttempt(s, l, msg) ==
    LET t  == l.task
        ti == s.tasks[t]
        s1 == [s EXCEPT !.taskExecutionTimes = MapDel(@, t),
                        !.tasks[t].errors =
                            Append(@, [attempt |-> ti.attempts, error |-> msg,
                                       wasStuck |-> t \in s.stuckTasks]),
                        !.stuckTasks = @ \ {t},
                        !.loops = @ (-) SetToBag({l})]
    IN  IF ti.attempts < ti.maxRetries
        THEN [s1 EXCEPT !.stats.retries = @ + 1,
                        !.hist[t].retries = @ + 1,
                        !.loops = @ (+) SetToBag({[l EXCEPT !.pc = "await_delay",
                                                            !.job = "none",
                                                            !.since = now,
                                                            !.delayK = ti.attempts]})]
        ELSE Throw(s1, l, [text |-> "Task failed after", n |-> ti.maxRetries, cause |-> msg])

(* the success path of executeTask and what awaits it *)
Succeed(s, l) ==
    LET t  == l.task
        ti == s.tasks[t]
        s1 == [s EXCEPT !.taskExecutionTimes = MapDel(@, t),
                        !.stuckTasks = @ \ {t},
                        !.loops = @ (-) SetToBag({l}),
                        !.hist[t].succeeded = @ + 1]
        s2 == IF ti.attempts > 1
              THEN [s1 EXCEPT !.stats.recovered = @ + 1, !.hist[t].recovered = @ + 1]
              ELSE s1
    IN  IF l.origin = "caller"
        THEN [s2 EXCEPT !.stats = updateStats(@, now - ti.createdAt),
                        !.hist[t].renders = @ + 1,
                        !.activeTasks = @ \ {t},
                        !.caller[t] = [st |-> "resolved", text |-> "bytes",
                                       n |-> l.attemptNo, cause |-> ""]]
        ELSE [s2 EXCEPT !.activeTasks = @ \ {t}]

(* Continuations that leave a refused dispatch pending for ever *)
SettleDropsRefused(s, l) ==
    IF l.pc = "exhausted"
    THEN Throw([s EXCEPT !.loops = @ (-) SetToBag({l})], l,
               [text |-> "Max retries exhausted", n |-> 0, cause |-> ""])
    ELSE IF l.job = "aborted" THEN FailAttempt(s, l, AbortMsg)
    ELSE s

(* The promise continuations that run right after the synchronous part of a
   dispatch: a refused job or an ended loop is handled in the same turn. *)
Settle(s, l) ==
    IF l.pc = "exhausted"
    THEN Throw([s EXCEPT !.loops = @ (-) SetToBag({l})], l,
               [text |-> "Max retries exhausted", n |-> 0, cause |-> ""])
    ELSE IF l.job = "refused" THEN FailAttempt(s, l, QueueFullMsg)
    ELSE IF l.job = "aborted" THEN FailAttempt(s, l, AbortMsg)
    ELSE s

-----------------------------------------------------------------------------
(* this.options as the constructor builds it from what the caller gives;
   no relation between the options is checked *)
constructor(given) ==
    [enableRecovery |-> given.enableRecovery,
     hangThreshold  |-> IF given.hangThreshold # 0 THEN given.hangThreshold
                                                   ELSE hangThresholdDefault,
     taskTimeout    |-> taskTimeoutDefault]

(* The setInterval timers the constructor starts, numbered in the order of
   the calls: startRecoveryLoop, setupWorkerMonitoring, startRecoveryLoop
   again, startHangDetection (enableHangDetection is left at its default,
   true).  Each start stores its handle in the field named after it. *)
Lifecycle(opts) ==
    [intervals |->
         (IF opts.enableRecovery
          THEN {[id |-> 1, callback |-> "processRetryQueue"],
                [id |-> 3, callback |-> "processRetryQueue"]}
          ELSE {})
         \cup {[id |-> 2, callback |-> "checkWorkers"],
               [id |-> 4, callback |-> "detectAndHandleHungTasks"]},
     recoveryInterval |-> IF opts.enableRecovery THEN 3 ELSE 0,
     workerCheckInterval |-> 2,
     hangDetectionInterval |-> 4,
     closePc |-> "open",
     closeAt |-> NoTime,
     destroyed |-> FALSE,
     ranAfterClose |-> {},
     drain |-> [pc |-> "idle", startTime |-> NoTime]]

(* this.stats as the constructor leaves it *)
NewStats ==
    [renders |-> 0, errors |-> 0, retries |-> 0, recovered |-> 0,
     workerCrashes |-> 0, hungTasks |-> 0, totalTime |-> 0,
     minTime |-> NoTime, maxTime |-> 0, timings |-> <<>>]

ServiceInit ==
    /\ tasks = <<>>
    /\ activeTasks = {}
    /\ retryQueue = <<>>
    /\ taskExecutionTimes = <<>>
    /\ stuckTasks = {}
    /\ stats = NewStats
    /\ lastWorkerCrash = [workerCount |-> NoTime, expectedCount |-> NoTime]
    /\ loops = EmptyBag
    /\ caller = <<>>
    /\ dlq = <<>>
    /\ threads = minThreads
    /\ now = 0
    /\ hist = <<>>
    /\ crashesThisDrop = 0
    /\ \E given \in [enableRecovery : BOOLEAN, hangThreshold : GivenHangThresholds] :
           options = constructor(given)
    /\ life = Lifecycle(options)

(* new DeadLetterQueue(options) *)
DeadLetterQueue(given) == [maxSize |-> IF given # 0 THEN given ELSE dlqMaxSize]

(* new RequestTracker(): empty maps, counters at zero *)
TrackerInit ==
    /\ activeRequests = <<>>
    /\ completedRequests = <<>>
    /\ failedRequests = <<>>
    /\ trackerStats = [total |-> 0, active |-> 0, completed |-> 0, failed |-> 0,
                       retried |-> 0, recovered |-> 0, timedOut |-> 0]

(* no renderToStream() call has been made *)
NoStream == [pc |-> "idle"]

(* a machine nothing has been constructed on *)
NoHost == [cpuCount |-> 0]

(* a worker that has not been given a job *)
NoJob == [pc |-> "idle"]

(* no call has returned anything yet; turn flips with every call that
   returns, so that two equal results in a row are still two returns *)
NoReturn == [call |-> "none", turn |-> 0]

PartsInit == stream = NoStream /\ job = NoJob /\ host = NoHost /\ returned = NoReturn
             /\ closures = <<>>

Init ==
    /\ ServiceInit
    /\ dlqOptions = DeadLetterQueue(0)
    /\ dlqAdded = <<>>
    /\ TrackerInit
    /\ PartsInit

(* renderToBuffer(docDefinition, options), up to its first await *)
renderToBuffer(payload, mr) ==
    /\ LET t  == Cardinality(DOMAIN tasks) + 1
           ti == [payload |-> payload, attempts |-> 0,
                  timeout |-> callerTimeout, aborted |-> FALSE,
                  maxRetries |-> IF mr # 0 THEN mr ELSE maxRetries,
                  createdAt |-> now, lastAttemptAt |-> NoTime, errors |-> <<>>]
           s0 == [Svc EXCEPT !.tasks = MapSet(@, t, ti),
                             !.activeTasks = @ \cup {t},
                             !.caller = MapSet(@, t, Pending),
                             !.hist = MapSet(@, t, NoHist)]
       IN  Becomes(Settle(BeginAttempt(s0, t, "caller"), BeginLoop(s0, t, "caller")))
    /\ UNCHANGED <<lastWorkerCrash, threads, now, crashesThisDrop, options, life, serverVars>>

(* the worker returns the rendered bytes of a dispatch *)
RunResolved(l) ==
    /\ l.pc = "await_run" /\ l.job = "running"
    /\ validateDocDefinition(tasks[l.task].payload) = ""
    /\ Becomes(Succeed(Svc, l))
    /\ UNCHANGED <<lastWorkerCrash, threads, now, crashesThisDrop, options, life, serverVars>>

(* a dispatch rejects: the worker threw *)
RunRejected(l) ==
    /\ l.pc = "await_run" /\ l.job = "running"
    /\ Becomes(FailAttempt(Svc, l, WorkerErrorMsg(tasks[l.task].payload)))
    /\ UNCHANGED <<lastWorkerCrash, threads, now, crashesThisDrop, options, life, serverVars>>

(* the worker's generation timer fires before the document is rendered: the
   uncaught exception of its callback ends the worker thread, and the pool
   rejects the dispatch with it *)
RunTimedOut(l) ==
    /\ l.pc = "await_run" /\ l.job = "running"
    /\ validateDocDefinition(tasks[l.task].payload) = ""
    /\ now - l.since >= (IF tasks[l.task].timeout # 0 THEN tasks[l.task].timeout
                                                      ELSE GENERATION_TIMEOUT)
    /\ threads > 0
    /\ threads' = threads - 1
    /\ Becomes(FailAttempt(Svc, l, TimeoutMsg))
    /\ crashesThisDrop' = IF threads >= minThreads /\ threads - 1 < minThreads
                          THEN 0 ELSE crashesThisDrop
    /\ UNCHANGED <<lastWorkerCrash, now, options, life, serverVars>>

(* the caller's AbortSignal fires: every dispatch of the task that the pool
   still holds rejects, and executeTask's catch block runs for each *)
RECURSIVE AbortAll(_, _)
AbortAll(s, t) ==
    LET held == {l \in BagToSet(s.loops) :
                    l.task = t /\ l.pc = "await_run" /\ l.job \in {"running", "queued"}}
    IN  IF held = {} THEN s
        ELSE AbortAll(FailAttempt(s, CHOOSE l \in held : TRUE, AbortMsg), t)

Abort(t) ==
    /\ ~tasks[t].aborted
    /\ caller[t].st = "pending"
    /\ Becomes(AbortAll([Svc EXCEPT !.tasks[t].aborted = TRUE], t))
    /\ UNCHANGED <<lastWorkerCrash, threads, now, crashesThisDrop, options, life, serverVars>>

(* the backoff timer of executeTask fires and the loop goes round *)
DelayElapsed(l) ==
    /\ l.pc = "await_delay"
    /\ DelayReached(now - l.since, l.delayK)
    /\ LET s0 == [Svc EXCEPT !.loops = @ (-) SetToBag({l})]
       IN  Becomes(Settle(BeginAttempt(s0, l.task, l.origin),
                          BeginLoop(s0, l.task, l.origin)))
    /\ UNCHANGED <<lastWorkerCrash, threads, now, crashesThisDrop, options, life, serverVars>>

Tick ==
    /\ now + TickMs <= MaxTime
    /\ now' = now + TickMs
    /\ UNCHANGED <<tasks, activeTasks, retryQueue, taskExecutionTimes, stuckTasks,
                   stats, lastWorkerCrash, loops, caller, dlq, threads, hist, crashesThisDrop,
                   options, life, serverVars>>

(* a queued job is handed to a free worker *)
PoolStart(l) ==
    /\ l.pc = "await_run" /\ l.job = "queued"
    /\ JobCount(loops, "running") < threads * concurrentTasksPerWorker
    /\ loops' = (loops (-) SetToBag({l})) (+) SetToBag({[l EXCEPT !.job = "running",
                                                                      !.since = now]})
    /\ hist' = [hist EXCEPT ![l.task].started = @ + 1]
    /\ UNCHANGED <<tasks, activeTasks, retryQueue, taskExecutionTimes, stuckTasks,
                   stats, lastWorkerCrash, caller, dlq, threads, now, crashesThisDrop, options, life, serverVars>>

(* A worker thread exits (crash).  The pool either rejects the job the worker
   was running, and executeTask's catch block runs in the same turn, or the
   job's promise is never settled. *)
WorkerExit(victim, outcome) ==
    /\ threads > 0
    /\ threads' = threads - 1
    /\ IF victim \in BagToSet(loops)
       THEN /\ victim.pc = "await_run" /\ victim.job = "running"
            /\ IF outcome = "rejected"
               THEN Becomes(FailAttempt(Svc, victim, WorkerExitMsg))
               ELSE Becomes([Svc EXCEPT !.loops = (@ (-) SetToBag({victim}))
                                            (+) SetToBag({[victim EXCEPT !.job = "lost"]})])
       ELSE /\ outcome = "lost"
            /\ JobCount(loops, "running") <= (threads - 1) * concurrentTasksPerWorker
            /\ Becomes(Svc)
    /\ crashesThisDrop' = IF threads >= minThreads /\ threads - 1 < minThreads
                          THEN 0 ELSE crashesThisDrop
    /\ UNCHANGED <<lastWorkerCrash, now, options, life, serverVars>>

(* the pool starts a replacement worker *)
WorkerSpawn ==
    /\ ~life.destroyed
    /\ threads < maxThreads
    /\ threads' = threads + 1
    /\ UNCHANGED <<tasks, activeTasks, retryQueue, taskExecutionTimes, stuckTasks,
                   stats, lastWorkerCrash, loops, caller, dlq, now, hist, crashesThisDrop,
                   options, life, serverVars>>

(* recoverInFlightTasks: activeTasks is iterated in insertion order, which is
   the order of the task ids *)
RECURSIVE InFlight(_, _)
InFlight(s, ids) ==
    IF ids = {} THEN <<>>
    ELSE LET t == CHOOSE x \in ids : \A y \in ids : x <= y
         IN  (IF s.tasks[t].attempts < s.tasks[t].maxRetries THEN <<t>> ELSE <<>>)
                 \o InFlight(s, ids \ {t})

recoverInFlightTasks(s) == [s EXCEPT !.retryQueue = @ \o InFlight(s, s.activeTasks)]

(* checkWorkers, the setInterval callback of setupWorkerMonitoring *)
checkWorkers ==
    /\ Live("checkWorkers")
    /\ threads < minThreads
    /\ stats.workerCrashes < MaxCrashChecks
    /\ lastWorkerCrash' = [workerCount |-> threads, expectedCount |-> minThreads]
    /\ Becomes(recoverInFlightTasks([Svc EXCEPT !.stats.workerCrashes = @ + 1]))
    /\ crashesThisDrop' = crashesThisDrop + 1
    /\ life' = Fired("checkWorkers")
    /\ UNCHANGED <<threads, now, options, serverVars>>

(* A detector that also drops the execution record of what it flags *)
detectAndDropRecords ==
    LET over  == {t \in DOMAIN taskExecutionTimes :
                      now - taskExecutionTimes[t] > options.hangThreshold}
        found == over \ stuckTasks
    IN  /\ Live("detectAndHandleHungTasks")
        /\ stuckTasks' = stuckTasks \cup found
        /\ stats' = [stats EXCEPT !.hungTasks = @ + Cardinality(found)]
        /\ taskExecutionTimes' = [t \in DOMAIN taskExecutionTimes \ found |->
                                      taskExecutionTimes[t]]
        /\ hist' = [t \in DOMAIN hist |->
                       [hist[t] EXCEPT !.sweptOver = @ \/ t \in over,
                                       !.recordFlags = IF t \in found THEN @ + 1 ELSE @]]
        /\ life' = Fired("detectAndHandleHungTasks")
        /\ UNCHANGED <<tasks, activeTasks, retryQueue, lastWorkerCrash,
                       loops, caller, dlq, threads, now, crashesThisDrop, options, serverVars>>

(* detectAndHandleHungTasks, the setInterval callback of startHangDetection.
   hist records, for the execution record a task has now, that a sweep saw it
   beyond the threshold and how often a sweep counted it. *)
detectAndHandleHungTasks ==
    LET over  == {t \in DOMAIN taskExecutionTimes :
                      now - taskExecutionTimes[t] > options.hangThreshold}
        found == over \ stuckTasks
    IN  /\ Live("detectAndHandleHungTasks")
        /\ stuckTasks' = stuckTasks \cup found
        /\ stats' = [stats EXCEPT !.hungTasks = @ + Cardinality(found)]
        /\ hist' = [t \in DOMAIN hist |->
                       [hist[t] EXCEPT !.sweptOver = @ \/ t \in over,
                                       !.recordFlags = IF t \in found THEN @ + 1 ELSE @]]
        /\ life' = Fired("detectAndHandleHungTasks")
        /\ UNCHANGED <<tasks, activeTasks, retryQueue, taskExecutionTimes, lastWorkerCrash,
                       loops, caller, dlq, threads, now, crashesThisDrop, options, serverVars>>

(* processRetryQueue *)
RetryReady(s, t) ==
    LET ti == s.tasks[t]
        last == IF ti.lastAttemptAt # NoTime THEN ti.lastAttemptAt ELSE ti.createdAt
    IN  DelayReached(now - last, ti.attempts)

Reverse(q) == [i \in 1..Len(q) |-> q[Len(q) + 1 - i]]

(* the synchronous part of every executeTask(taskInfo) call of the sweep ... *)
RECURSIVE StartAll(_, _)
StartAll(s, ts) ==
    IF ts = <<>> THEN [s |-> s, started |-> <<>>]
    ELSE LET l == BeginLoop(s, Head(ts), "sweep")
             r == StartAll(BeginAttempt(s, Head(ts), "sweep"), Tail(ts))
         IN  [s |-> r.s, started |-> <<l>> \o r.started]

(* ... and then their promise continuations, in the same order *)
RECURSIVE SettleAll(_, _)
SettleAll(s, ls) ==
    IF ls = <<>> THEN s ELSE SettleAll(Settle(s, Head(ls)), Tail(ls))

processRetryQueue ==
    /\ Live("processRetryQueue")
    /\ retryQueue # <<>>
    /\ LET tasksToRetry == Reverse(SelectSeq(retryQueue, LAMBDA t : RetryReady(Svc, t)))
           s0 == [Svc EXCEPT !.retryQueue = SelectSeq(@, LAMBDA t : ~RetryReady(Svc, t))]
           r  == StartAll(s0, tasksToRetry)
       IN  Becomes(SettleAll(r.s, r.started))
    /\ life' = Fired("processRetryQueue")
    /\ UNCHANGED <<lastWorkerCrash, threads, now, crashesThisDrop, options, serverVars>>

(* a caller submits a document, as long as the model has task ids left *)
Submit(limit, p, mr) ==
    /\ Cardinality(DOMAIN tasks) < limit
    /\ renderToBuffer(p, mr)

Next ==
    \/ \E p \in Payloads, mr \in TaskMaxRetries : Submit(MaxTasks, p, mr)
    \/ \E l \in BagToSet(loops) : RunResolved(l)
    \/ \E l \in BagToSet(loops) : RunRejected(l)
    \/ \E l \in BagToSet(loops) : RunTimedOut(l)
    \/ \E t \in DOMAIN tasks : Abort(t)
    \/ \E l \in BagToSet(loops) : DelayElapsed(l)
    \/ \E l \in BagToSet(loops) : PoolStart(l)
    \/ \E v \in BagToSet(loops) \cup {NoLoop}, o \in {"lost", "rejected"} : WorkerExit(v, o)
    \/ WorkerSpawn
    \/ checkWorkers
    \/ processRetryQueue
    \/ detectAndHandleHungTasks
    \/ Tick

Spec == Init /\ [][Next]_vars

(* Several callers inside one window between two firings of the interval
   timers (recoveryCheckInterval and hangDetectionInterval are longer than
   MaxTime): checkWorkers, processRetryQueue and detectAndHandleHungTasks do
   not run. *)
InitBurst == Init /\ options.enableRecovery /\ options.hangThreshold = hangThresholdDefault

NextBurst ==
    \/ \E p \in Payloads, mr \in TaskMaxRetries : Submit(MaxBurstTasks, p, mr)
    \/ \E l \in BagToSet(loops) : RunResolved(l)
    \/ \E l \in BagToSet(loops) : RunRejected(l)
    \/ \E l \in BagToSet(loops) : DelayElapsed(l)
    \/ \E l \in BagToSet(loops) : PoolStart(l)
    \/ \E v \in BagToSet(loops) \cup {NoLoop}, o \in {"lost", "rejected"} : WorkerExit(v, o)
    \/ WorkerSpawn
    \/ Tick

SpecBurst == InitBurst /\ [][NextBurst]_vars

(* Progress.  Every dispatch the pool holds is eventually started and
   eventually resolves or rejects (no worker takes its job with it), a
   replacement worker is eventually started, and timers fire: the clock of
   SpecLive stops at LiveMaxTime, a backoff timer still pending then fires
   beyond it. *)
TickLive ==
    /\ now + TickMs <= LiveMaxTime
    /\ now' = now + TickMs
    /\ UNCHANGED <<tasks, activeTasks, retryQueue, taskExecutionTimes, stuckTasks,
                   stats, lastWorkerCrash, loops, caller, dlq, threads, hist, crashesThisDrop,
                   options, life, serverVars>>

DelayElapsedAtHorizon(l) ==
    /\ l.pc = "await_delay"
    /\ now = LiveMaxTime
    /\ ~DelayReached(now - l.since, l.delayK)
    /\ LET s0 == [Svc EXCEPT !.loops = @ (-) SetToBag({l})]
       IN  Becomes(Settle(BeginAttempt(s0, l.task, l.origin),
                          BeginLoop(s0, l.task, l.origin)))
    /\ UNCHANGED <<lastWorkerCrash, threads, now, crashesThisDrop, options, life, serverVars>>

InitLive == Init /\ options.enableRecovery /\ options.hangThreshold = hangThresholdDefault

DispatchSettles == \E l \in BagToSet(loops) : RunResolved(l) \/ RunRejected(l)

DispatchStarts == \E l \in BagToSet(loops) : PoolStart(l)

TimerFires == \E l \in BagToSet(loops) : DelayElapsed(l) \/ DelayElapsedAtHorizon(l)

NextLive ==
    \/ \E mr \in LiveMaxRetries : Submit(MaxBurstTasks, "valid", mr)
    \/ DispatchSettles
    \/ DispatchStarts
    \/ TimerFires
    \/ \E v \in BagToSet(loops) \cup {NoLoop} :
           WorkerExit(v, IF v = NoLoop THEN "lost" ELSE "rejected")
    \/ WorkerSpawn
    \/ TickLive

SpecLive ==
    /\ InitLive
    /\ [][NextLive]_vars
    /\ WF_vars(DispatchSettles)
    /\ SF_vars(DispatchStarts)
    /\ WF_vars(TimerFires)
    /\ WF_vars(WorkerSpawn)
    /\ WF_vars(TickLive)

-----------------------------------------------------------------------------
(* The dead letter queue on its own: add() and clear() in any order, for each
   capacity the server may configure. *)
InitDLQ ==
    /\ ServiceInit
    /\ options = constructor([enableRecovery |-> TRUE, hangThreshold |-> 0])
    /\ \E given \in GivenDlqMaxSizes : dlqOptions = DeadLetterQueue(given)
    /\ dlqAdded = <<>>
    /\ TrackerInit
    /\ PartsInit

(* deadLetterQueue.add(request, reason) *)
add(request, reason) ==
    /\ Len(dlqAdded) < MaxDlqAdds
    /\ LET entry == [taskId |-> request.taskId, attempts |-> request.attempts,
                     dlqReason |-> reason]
       IN  /\ dlq' = DLQAdd(dlq, entry, dlqOptions.maxSize)
           /\ dlqAdded' = Append(dlqAdded, entry)
    /\ UNCHANGED <<serviceVars, partVars, now, dlqOptions, activeRequests, completedRequests,
                   failedRequests, trackerStats>>

(* Array.prototype.slice(start) with no end: a negative start counts from the
   end of the array, and -0 is 0 *)
slice(array, start) ==
    LET len == Len(array)
        k   == IF start < 0
               THEN (IF len + start > 0 THEN len + start ELSE 0)
               ELSE (IF start < len THEN start ELSE len)
    IN  SubSeq(array, k + 1, len)

(* deadLetterQueue.getRecent(limit) *)
getRecent(limit) ==
    /\ returned' = [call |-> "getRecent", turn |-> 1 - returned.turn, limit |-> limit,
                    value |-> slice(dlq, 0 - limit)]
    /\ UNCHANGED <<serviceVars, stream, job, host, closures, dlq, now, dlqOptions, dlqAdded,
                   activeRequests, completedRequests, failedRequests, trackerStats>>

(* deadLetterQueue.clear() *)
clear ==
    /\ dlq' = <<>>
    /\ dlqAdded' = <<>>
    /\ UNCHANGED <<serviceVars, partVars, now, dlqOptions, activeRequests, completedRequests,
                   failedRequests, trackerStats>>

NextDLQ ==
    \/ \E id \in 1..MaxDlqIds :
           add([taskId |-> id, attempts |-> maxRetries],
               [text |-> "Max retries exhausted", n |-> 0, cause |-> ""])
    \/ \E limit \in 0..MaxRecent : getRecent(limit)
    \/ clear

SpecDLQ == InitDLQ /\ [][NextDLQ]_vars

-----------------------------------------------------------------------------
(* A service that has been up for a while: n renders have completed, their
   tasks are gone, and the latency buffer is one short of full or full.  The
   statistics are those updateStats leaves after n calls, the call for the
   i-th render having the duration (i % 3) * TickMs. *)
RECURSIVE StatsAfterCalls(_, _, _)
StatsAfterCalls(st, first, last) ==
    IF st.renders # first - 1 \/ first > last THEN st
    ELSE IF first = last THEN updateStats(st, (first % 3) * TickMs)
    ELSE LET mid == (first + last) \div 2
         IN  StatsAfterCalls(StatsAfterCalls(st, first, mid), mid + 1, last)

StatsAfter(n) == StatsAfterCalls(NewStats, 1, n)

WarmRenders == {maxTimings - 1, maxTimings}

InitWarm ==
    /\ tasks = <<>>
    /\ activeTasks = {}
    /\ retryQueue = <<>>
    /\ taskExecutionTimes = <<>>
    /\ stuckTasks = {}
    /\ \E n \in WarmRenders : stats = StatsAfter(n)
    /\ lastWorkerCrash = [workerCount |-> NoTime, expectedCount |-> NoTime]
    /\ loops = EmptyBag
    /\ caller = <<>>
    /\ dlq = <<>>
    /\ threads = minThreads
    /\ now = 0
    /\ hist = <<>>
    /\ crashesThisDrop = 0
    /\ options = constructor([enableRecovery |-> TRUE, hangThreshold |-> 1000])
    /\ life = Lifecycle(options)
    /\ dlqOptions = DeadLetterQueue(0)
    /\ dlqAdded = <<>>
    /\ TrackerInit
    /\ PartsInit

SpecWarm == InitWarm /\ [][Next]_vars

-----------------------------------------------------------------------------
(* The request tracker on its own: its operations in any order on the ids it
   has issued. *)
InitTracker ==
    /\ ServiceInit
    /\ options = constructor([enableRecovery |-> TRUE, hangThreshold |-> 0])
    /\ dlqOptions = DeadLetterQueue(0)
    /\ dlqAdded = <<>>
    /\ TrackerInit
    /\ PartsInit

(* A createRequest that counts the request in total only *)
createRequestCountsTotalOnly ==
    /\ trackerStats.total < MaxRequests
    /\ LET requestId == trackerStats.total + 1
           request == [status |-> "pending", attempts |-> 0,
                       maxRetries |-> trackerMaxRetries, completedAt |-> NoTime,
                       error |-> ""]
       IN  activeRequests' = MapSet(activeRequests, requestId, request)
    /\ trackerStats' = [trackerStats EXCEPT !.total = @ + 1]
    /\ UNCHANGED <<serviceVars, partVars, dlq, now, dlqOptions, dlqAdded, completedRequests,
                   failedRequests>>

(* createRequest: randomUUID() is an id never issued before *)
doCreateRequest ==
    /\ LET requestId == trackerStats.total + 1
           request == [status |-> "pending", attempts |-> 0,
                       maxRetries |-> trackerMaxRetries, completedAt |-> NoTime,
                       error |-> ""]
       IN  activeRequests' = MapSet(activeRequests, requestId, request)
    /\ trackerStats' = [trackerStats EXCEPT !.total = @ + 1, !.active = @ + 1]

(* a createRequest() call, as long as the model has request ids left *)
createRequest ==
    /\ trackerStats.total < MaxRequests
    /\ doCreateRequest
    /\ UNCHANGED <<serviceVars, partVars, dlq, now, dlqOptions, dlqAdded, completedRequests,
                   failedRequests>>

(* startRequest; for an id that is not active it throws and changes nothing *)
startRequest(requestId) ==
    /\ requestId \in DOMAIN activeRequests
    /\ activeRequests[requestId].attempts < MaxStarts
    /\ activeRequests' = [activeRequests EXCEPT ![requestId].status = "processing",
                                                ![requestId].attempts = @ + 1]
    /\ UNCHANGED <<serviceVars, partVars, dlq, now, dlqOptions, dlqAdded, completedRequests,
                   failedRequests, trackerStats>>

(* A completeRequest that forgets to take the request out of the active map *)
completeRequestKeepsActive(requestId) ==
    /\ requestId \in DOMAIN activeRequests
    /\ LET request == [activeRequests[requestId] EXCEPT !.status = "completed",
                                                         !.completedAt = now]
       IN  /\ activeRequests' = MapSet(activeRequests, requestId, request)
           /\ completedRequests' = MapSet(completedRequests, requestId, request)
    /\ trackerStats' = [trackerStats EXCEPT !.active = @ - 1, !.completed = @ + 1]
    /\ UNCHANGED <<serviceVars, partVars, dlq, now, dlqOptions, dlqAdded, failedRequests>>

(* completeRequest; for an id that is not active it returns at once *)
doCompleteRequest(requestId) ==
    /\ requestId \in DOMAIN activeRequests
    /\ LET request == [activeRequests[requestId] EXCEPT !.status = "completed",
                                                         !.completedAt = now]
       IN  /\ activeRequests' = MapDel(activeRequests, requestId)
           /\ completedRequests' = MapSet(completedRequests, requestId, request)
    /\ trackerStats' = [trackerStats EXCEPT !.active = @ - 1, !.completed = @ + 1]

(* a completeRequest(requestId) call *)
completeRequest(requestId) ==
    /\ doCompleteRequest(requestId)
    /\ UNCHANGED <<serviceVars, partVars, dlq, now, dlqOptions, dlqAdded, failedRequests>>

(* A failRequest that grants one retry more than maxRetries (<= for <) *)
failRequestRetriesOnceMore(requestId, error) ==
    /\ IF requestId \notin DOMAIN activeRequests
       THEN /\ returned' = [call |-> "failRequest", turn |-> 1 - returned.turn,
                            id |-> requestId, value |-> [null |-> TRUE]]
            /\ UNCHANGED <<activeRequests, completedRequests, failedRequests, trackerStats>>
       ELSE LET request == activeRequests[requestId]
            IN  IF request.attempts <= request.maxRetries
                THEN /\ trackerStats.retried < MaxRetried
                     /\ activeRequests' = [activeRequests EXCEPT
                                               ![requestId].error = error,
                                               ![requestId].status = "retry_pending"]
                     /\ trackerStats' = [trackerStats EXCEPT !.retried = @ + 1]
                     /\ returned' = [call |-> "failRequest", turn |-> 1 - returned.turn,
                                     id |-> requestId,
                                     value |-> [null |-> FALSE, shouldRetry |-> TRUE]]
                     /\ UNCHANGED <<completedRequests, failedRequests>>
                ELSE /\ activeRequests' = MapDel(activeRequests, requestId)
                     /\ failedRequests' =
                            MapSet(failedRequests, requestId,
                                   [request EXCEPT !.error = error, !.status = "failed",
                                                   !.completedAt = now])
                     /\ trackerStats' = [trackerStats EXCEPT !.active = @ - 1,
                                                             !.failed = @ + 1]
                     /\ returned' = [call |-> "failRequest", turn |-> 1 - returned.turn,
                                     id |-> requestId,
                                     value |-> [null |-> FALSE, shouldRetry |-> FALSE]]
                     /\ UNCHANGED completedRequests
    /\ UNCHANGED <<serviceVars, stream, job, host, closures, dlq, now, dlqOptions, dlqAdded>>

(* failRequest, with st the counters as they are when it is called; for an id
   that is not active it returns null at once *)
doFailRequest(st, requestId, error) ==
    /\ IF requestId \notin DOMAIN activeRequests
       THEN /\ returned' = [call |-> "failRequest", turn |-> 1 - returned.turn,
                            id |-> requestId, value |-> [null |-> TRUE]]
            /\ trackerStats' = st
            /\ UNCHANGED <<activeRequests, completedRequests, failedRequests>>
       ELSE LET request == activeRequests[requestId]
            IN  IF request.attempts < request.maxRetries
                THEN /\ st.retried < MaxRetried
                     /\ activeRequests' = [activeRequests EXCEPT
                                               ![requestId].error = error,
                                               ![requestId].status = "retry_pending"]
                     /\ trackerStats' = [st EXCEPT !.retried = @ + 1]
                     /\ returned' = [call |-> "failRequest", turn |-> 1 - returned.turn,
                                     id |-> requestId,
                                     value |-> [null |-> FALSE, shouldRetry |-> TRUE]]
                     /\ UNCHANGED <<completedRequests, failedRequests>>
                ELSE /\ activeRequests' = MapDel(activeRequests, requestId)
                     /\ failedRequests' =
                            MapSet(failedRequests, requestId,
                                   [request EXCEPT !.error = error, !.status = "failed",
                                                   !.completedAt = now])
                     /\ trackerStats' = [st EXCEPT !.active = @ - 1,
                                                             !.failed = @ + 1]
                     /\ returned' = [call |-> "failRequest", turn |-> 1 - returned.turn,
                                     id |-> requestId,
                                     value |-> [null |-> FALSE, shouldRetry |-> FALSE]]
                     /\ UNCHANGED completedRequests

(* a failRequest(requestId, error) call *)
failRequest(requestId, error) ==
    /\ doFailRequest(trackerStats, requestId, error)
    /\ UNCHANGED <<serviceVars, stream, job, host, closures, dlq, now, dlqOptions, dlqAdded>>

(* recoverInFlightRequests *)
recoverInFlightRequests ==
    LET inFlight == {id \in DOMAIN activeRequests :
                        /\ activeRequests[id].status = "processing"
                        /\ activeRequests[id].attempts < activeRequests[id].maxRetries}
    IN  /\ activeRequests' = [id \in DOMAIN activeRequests |->
                                 IF id \in inFlight
                                 THEN [activeRequests[id] EXCEPT !.status = "retry_pending"]
                                 ELSE activeRequests[id]]
        /\ trackerStats' = [trackerStats EXCEPT !.recovered = @ + Cardinality(inFlight)]
        /\ UNCHANGED <<serviceVars, partVars, dlq, now, dlqOptions, dlqAdded, completedRequests,
                       failedRequests>>

(* cleanup, the setInterval callback of the constructor *)
cleanup ==
    /\ completedRequests' =
           [id \in {i \in DOMAIN completedRequests :
                       ~(now - completedRequests[i].completedAt > trackerMaxAge)}
               |-> completedRequests[id]]
    /\ failedRequests' =
           [id \in {i \in DOMAIN failedRequests :
                       ~(now - failedRequests[i].completedAt > trackerMaxAge)}
               |-> failedRequests[id]]
    /\ UNCHANGED <<serviceVars, partVars, dlq, now, dlqOptions, dlqAdded, activeRequests,
                   trackerStats>>

NextTracker ==
    \/ createRequest
    \/ \E id \in 1..MaxRequests : startRequest(id)
    \/ \E id \in 1..MaxRequests : completeRequest(id)
    \/ \E id \in 1..MaxRequests : failRequest(id, "HTTP 500")
    \/ recoverInFlightRequests
    \/ cleanup
    \/ Tick

SpecTracker == InitTracker /\ [][NextTracker]_vars

-----------------------------------------------------------------------------
(* The tracker's Express middleware: a request is created when it arrives,
   complete() runs when the handler sends the response, the timeout timer
   runs checkTimeout, and the finish event of the response clears the timer.
   createdAt of the request is kept with its closure. *)

trackerRequestTimeout == 1000

StatusCodes == {200, 500}

(* the middleware function, up to next() *)
middleware ==
    /\ trackerStats.total < MaxRequests
    /\ doCreateRequest
    /\ closures' = MapSet(closures, trackerStats.total + 1,
                          [completed |-> FALSE, responded |-> FALSE,
                           timer |-> "armed", createdAt |-> now])
    /\ UNCHANGED <<serviceVars, stream, job, host, returned, dlq, now, dlqOptions,
                   dlqAdded, completedRequests, failedRequests>>

(* the handler calls res.json, res.send or res.end: complete() *)
respond(requestId, statusCode) ==
    /\ requestId \in DOMAIN closures
    /\ ~closures[requestId].responded
    /\ closures' = [closures EXCEPT ![requestId].responded = TRUE,
                                    ![requestId].completed = TRUE]
    /\ IF closures[requestId].completed
       THEN UNCHANGED <<activeRequests, completedRequests, failedRequests,
                        trackerStats, returned>>
       ELSE IF statusCode >= 200 /\ statusCode < 400
       THEN IF requestId \in DOMAIN activeRequests
            THEN doCompleteRequest(requestId) /\ UNCHANGED <<failedRequests, returned>>
            ELSE UNCHANGED <<activeRequests, completedRequests, failedRequests,
                             trackerStats, returned>>
       ELSE doFailRequest(trackerStats, requestId, "HTTP 500")
    /\ UNCHANGED <<serviceVars, stream, job, host, dlq, now, dlqOptions, dlqAdded>>

(* res.on("finish"): clearTimeout *)
onFinish(requestId) ==
    /\ requestId \in DOMAIN closures
    /\ closures[requestId].responded
    /\ closures[requestId].timer = "armed"
    /\ closures' = [closures EXCEPT ![requestId].timer = "cleared"]
    /\ UNCHANGED <<serviceVars, stream, job, host, returned, dlq, now, dlqOptions,
                   dlqAdded, activeRequests, completedRequests, failedRequests,
                   trackerStats>>

(* checkTimeout(requestId): true, and counted, when the request is active and
   older than requestTimeout *)
checkTimeout(requestId) ==
    /\ requestId \in DOMAIN activeRequests
    /\ now - closures[requestId].createdAt > trackerRequestTimeout

(* the callback of the timeout timer; a timer never fires early, and fires
   when the event loop gets to it *)
timeoutChecker(requestId) ==
    /\ requestId \in DOMAIN closures
    /\ closures[requestId].timer = "armed"
    /\ now - closures[requestId].createdAt >= trackerRequestTimeout
    /\ LET counted == IF checkTimeout(requestId)
                      THEN [trackerStats EXCEPT !.timedOut = @ + 1]
                      ELSE trackerStats
       IN  IF checkTimeout(requestId) /\ ~closures[requestId].completed
           THEN /\ closures' = [closures EXCEPT ![requestId].timer = "fired",
                                                ![requestId].completed = TRUE]
                /\ doFailRequest(counted, requestId, "Request timeout")
           ELSE /\ closures' = [closures EXCEPT ![requestId].timer = "fired"]
                /\ trackerStats' = counted
                /\ UNCHANGED <<activeRequests, completedRequests, failedRequests,
                               returned>>
    /\ UNCHANGED <<serviceVars, stream, job, host, dlq, now, dlqOptions, dlqAdded>>

NextMiddleware ==
    \/ middleware
    \/ \E id \in 1..MaxRequests, statusCode \in StatusCodes : respond(id, statusCode)
    \/ \E id \in 1..MaxRequests : onFinish(id)
    \/ \E id \in 1..MaxRequests : timeoutChecker(id)
    \/ cleanup
    \/ Tick

SpecMiddleware == InitTracker /\ [][NextMiddleware]_vars

-----------------------------------------------------------------------------
(* Shutting down a service that has no work in flight: the worker pool and
   the interval timers before, during and after close(). *)

(* close() up to its await: the three clearInterval calls *)
close ==
    /\ life.closePc = "open"
    /\ life' = [life EXCEPT
                   !.intervals = {timer \in @ :
                                     timer.id \notin {life.recoveryInterval,
                                                      life.workerCheckInterval,
                                                      life.hangDetectionInterval}},
                   !.closePc = "draining",
                   !.closeAt = now]
    /\ UNCHANGED <<tasks, activeTasks, retryQueue, taskExecutionTimes, stuckTasks,
                   stats, lastWorkerCrash, loops, caller, dlq, threads, now, hist,
                   crashesThisDrop, options, serverVars>>

(* close() after the race of drain() against its timer: piscina.destroy() *)
closeDestroy ==
    /\ life.closePc = "draining"
    /\ \/ activeTasks = {} /\ JobCount(loops, "queued") = 0
       \/ now - life.closeAt >= closeRaceMs
    /\ life' = [life EXCEPT !.closePc = "closed", !.destroyed = TRUE]
    /\ threads' = 0
    /\ UNCHANGED <<tasks, activeTasks, retryQueue, taskExecutionTimes, stuckTasks,
                   stats, lastWorkerCrash, loops, caller, dlq, now, hist,
                   crashesThisDrop, options, serverVars>>

(* an interval timer fires and its callback finds nothing to do: checkWorkers
   with the pool at minThreads or above, processRetryQueue with an empty
   retry queue *)
intervalIdle(callback) ==
    /\ Live(callback)
    /\ \/ callback = "checkWorkers" /\ ~(threads < minThreads)
       \/ callback = "processRetryQueue" /\ retryQueue = <<>>
    /\ life' = Fired(callback)
    /\ UNCHANGED <<tasks, activeTasks, retryQueue, taskExecutionTimes, stuckTasks,
                   stats, lastWorkerCrash, loops, caller, dlq, threads, now, hist,
                   crashesThisDrop, options, serverVars>>

NextClose ==
    \/ close
    \/ closeDestroy
    \/ \E callback \in {"checkWorkers", "processRetryQueue"} : intervalIdle(callback)
    \/ checkWorkers
    \/ detectAndHandleHungTasks
    \/ \E o \in {"lost", "rejected"} : WorkerExit(NoLoop, o)
    \/ WorkerSpawn
    \/ Tick

SpecClose == Init /\ [][NextClose]_vars

-----------------------------------------------------------------------------
(* drain() called on a service that has work: it polls activeTasks and the
   pool queue (every 100 ms, so between any two other steps of the model)
   until both are empty or maxWait has passed since the call. *)

drainMaxWait == 10000

(* the condition of drain's while loop *)
drainWaits(startTime) ==
    /\ activeTasks # {} \/ JobCount(loops, "queued") > 0
    /\ now - startTime < drainMaxWait

(* drain() up to its first await, or to its return when there is nothing to
   wait for *)
drain ==
    /\ life.drain.pc = "idle"
    /\ life' = [life EXCEPT !.drain = [pc |-> IF drainWaits(now) THEN "waiting"
                                                                ELSE "returned",
                                       startTime |-> now]]
    /\ UNCHANGED <<tasks, activeTasks, retryQueue, taskExecutionTimes, stuckTasks,
                   stats, lastWorkerCrash, loops, caller, dlq, threads, now, hist,
                   crashesThisDrop, options, serverVars>>

(* the poll timer of drain fires and the loop condition is false: it returns *)
drainPoll ==
    /\ life.drain.pc = "waiting"
    /\ ~drainWaits(life.drain.startTime)
    /\ life' = [life EXCEPT !.drain.pc = "returned"]
    /\ UNCHANGED <<tasks, activeTasks, retryQueue, taskExecutionTimes, stuckTasks,
                   stats, lastWorkerCrash, loops, caller, dlq, threads, now, hist,
                   crashesThisDrop, options, serverVars>>

NextDrain ==
    \/ \E p \in Payloads, mr \in TaskMaxRetries : Submit(MaxTasks, p, mr)
    \/ \E l \in BagToSet(loops) : RunResolved(l)
    \/ \E l \in BagToSet(loops) : RunRejected(l)
    \/ \E l \in BagToSet(loops) : DelayElapsed(l)
    \/ \E l \in BagToSet(loops) : PoolStart(l)
    \/ \E v \in BagToSet(loops) \cup {NoLoop}, o \in {"lost", "rejected"} : WorkerExit(v, o)
    \/ WorkerSpawn
    \/ checkWorkers
    \/ processRetryQueue
    \/ drain
    \/ drainPoll
    \/ Tick

(* hang detection takes no part here: the threshold is left at its default *)
InitDrain == Init /\ options.hangThreshold = hangThresholdDefault

SpecDrain == InitDrain /\ [][NextDrain]_vars

-----------------------------------------------------------------------------
(* renderToStream on its own.  The buffer is what the awaited renderToBuffer
   call resolved with; the sink is a Writable: write() adds the chunk to what
   the sink holds and returns whether that is still below its high water
   mark, and the sink emits drain when it has flushed everything after a
   write returned false. *)
restVars == <<serviceVars, dlq, now, dlqOptions, dlqAdded, activeRequests,
              completedRequests, failedRequests, trackerStats, returned, closures>>

Buffers == UNION {[1..n -> {0, 1}] : n \in 0..MaxBufLen}

Min(a, b) == IF a < b THEN a ELSE b

RECURSIVE Concat(_)
Concat(chunks) == IF chunks = <<>> THEN <<>> ELSE Head(chunks) \o Concat(Tail(chunks))

(* a loop that goes on writing whatever write() returned *)
RECURSIVE PumpIgnoresBackpressure(_)
PumpIgnoresBackpressure(st) ==
    IF st.offset < Len(st.buffer)
    THEN LET chunk == SubSeq(st.buffer, st.offset + 1,
                             Min(st.offset + st.chunkSize, Len(st.buffer)))
             length == st.sinkLength + Len(chunk)
         IN  PumpIgnoresBackpressure(
                 [st EXCEPT !.writes = Append(@, chunk),
                            !.sinkLength = length,
                            !.needDrain = @ \/ ~(length < st.highWaterMark),
                            !.wroteBeforeDrain = @ \/ st.needDrain,
                            !.offset = @ + Len(chunk)])
    ELSE [st EXCEPT !.pc = "ended", !.ends = @ + 1]

(* the while loop of renderToStream from its head up to the next await, or
   through response.end() *)
RECURSIVE Pump(_)
Pump(st) ==
    IF st.offset < Len(st.buffer)
    THEN LET chunk == SubSeq(st.buffer, st.offset + 1,
                             Min(st.offset + st.chunkSize, Len(st.buffer)))
             length == st.sinkLength + Len(chunk)
             wrote == [st EXCEPT !.writes = Append(@, chunk),
                                 !.sinkLength = length,
                                 !.needDrain = @ \/ ~(length < st.highWaterMark),
                                 !.wroteBeforeDrain = @ \/ st.needDrain]
         IN  IF length < st.highWaterMark
             THEN Pump([wrote EXCEPT !.offset = @ + Len(chunk)])
             ELSE [wrote EXCEPT !.pc = "await_drain", !.chunk = Len(chunk)]
    ELSE [st EXCEPT !.pc = "ended", !.ends = @ + 1]

(* renderToStream(docDefinition, response, options) from the point where
   renderToBuffer has settled *)
renderToStream(result, highWaterMark, given) ==
    /\ stream.pc = "idle"
    /\ stream' =
          IF result.ok
          THEN Pump([pc |-> "writing", buffer |-> result.buffer,
                     chunkSize |-> IF given # 0 THEN given ELSE defaultChunkSize,
                     offset |-> 0, chunk |-> 0, writes |-> <<>>, ends |-> 0,
                     sinkLength |-> 0, needDrain |-> FALSE,
                     highWaterMark |-> highWaterMark, wroteBeforeDrain |-> FALSE])
          ELSE [pc |-> "threw"]
    /\ UNCHANGED <<restVars, job, host>>

(* the sink has flushed what it held; if a write had returned false it emits
   drain, and the loop waiting for it goes on *)
sinkFlush ==
    /\ stream.pc \in {"await_drain", "ended"}
    /\ stream.sinkLength > 0
    /\ LET flushed == [stream EXCEPT !.sinkLength = 0, !.needDrain = FALSE]
       IN  stream' = IF stream.needDrain /\ stream.pc = "await_drain"
                     THEN Pump([flushed EXCEPT !.pc = "writing",
                                               !.offset = @ + stream.chunk,
                                               !.chunk = 0])
                     ELSE flushed
    /\ UNCHANGED <<restVars, job, host>>

InitStream ==
    /\ ServiceInit
    /\ options = constructor([enableRecovery |-> TRUE, hangThreshold |-> 0])
    /\ dlqOptions = DeadLetterQueue(0)
    /\ dlqAdded = <<>>
    /\ TrackerInit
    /\ PartsInit

NextStream ==
    \/ \E buffer \in Buffers, hwm \in HighWaterMarks, given \in GivenChunkSizes :
           renderToStream([ok |-> TRUE, buffer |-> buffer], hwm, given)
    \/ \E hwm \in HighWaterMarks, given \in GivenChunkSizes :
           renderToStream([ok |-> FALSE], hwm, given)
    \/ sinkFlush

SpecStream == InitStream /\ [][NextStream]_vars

-----------------------------------------------------------------------------
(* The pool size a service built without options takes from the number of
   CPU cores, and the oversubscription ratio getStats reports for it. *)
Max(a, b) == IF a > b THEN a ELSE b

(* Math.ceil(cpuCount * num / den) *)
CeilOf(cpuCount, num, den) == (cpuCount * num + den - 1) \div den

(* options.maxThreads || Math.max(4, Math.ceil(cpuCount * 0.75)) *)
maxThreadsDefault(cpuCount) == Max(4, CeilOf(cpuCount, 3, 4))

(* (x).toFixed(2) of the quotient num / den, in hundredths *)
ToFixed2(num, den) == (200 * num + den) \div (2 * den)

(* new PdfRenderServiceResilient() on a machine with cpuCount cores *)
constructOn(cpuCount) ==
    /\ host = NoHost
    /\ host' = [cpuCount |-> cpuCount,
                maxThreads |-> maxThreadsDefault(cpuCount),
                concurrentTasksPerWorker |-> concurrentTasksPerWorker,
                reported |-> FALSE,
                cpuOversubscription |-> 0]
    /\ UNCHANGED <<restVars, stream, job>>

(* getStats().cpuOversubscription *)
getStats ==
    /\ host # NoHost
    /\ host' = [host EXCEPT
                   !.reported = TRUE,
                   !.cpuOversubscription =
                       ToFixed2(host.maxThreads * host.concurrentTasksPerWorker,
                                host.cpuCount)]
    /\ UNCHANGED <<restVars, stream, job>>

NextHost ==
    \/ \E cpuCount \in 1..MaxCpuCount : constructOn(cpuCount)
    \/ getStats

SpecHost == InitStream /\ [][NextHost]_vars

-----------------------------------------------------------------------------
(* generatePdfBuffer inside a worker: the promise it returns, its timer, and
   the handlers it attaches to the PDFKit document.  chunks holds the lengths
   of the buffered chunks.  The document may go on emitting events after
   destroy(); the handlers decide whether they count. *)
workerRest == <<tasks, activeTasks, retryQueue, taskExecutionTimes, stuckTasks, stats,
                lastWorkerCrash, loops, caller, dlq, threads, hist, crashesThisDrop,
                options, life, dlqOptions, dlqAdded, activeRequests, completedRequests,
                failedRequests, trackerStats, stream, host, returned, closures>>

NoError == [text |-> "", n |-> 0]

RECURSIVE SumOf(_)
SumOf(lengths) == IF lengths = <<>> THEN 0 ELSE Head(lengths) + SumOf(Tail(lengths))

(* generatePdfBuffer(docDefinition, options) up to the return of the promise:
   setTimeout, createPdfKitDocument, the three handlers, pdfDoc.end() *)
generatePdfBuffer(given) ==
    /\ job.pc = "idle"
    /\ job' = [pc |-> "rendering",
               isCompleted |-> FALSE, totalSize |-> 0, chunks |-> <<>>,
               timeout |-> [set |-> TRUE, at |-> now,
                            delay |-> IF given # 0 THEN given ELSE GENERATION_TIMEOUT],
               promise |-> "pending", error |-> NoError, resolvedBytes |-> 0,
               docDestroyed |-> FALSE, docEnded |-> FALSE, emitted |-> 0,
               expired |-> FALSE, uncaught |-> ""]
    /\ UNCHANGED <<workerRest, now>>

(* a data handler that leaves the buffer as it is when the ceiling is passed *)
onDataKeepsBuffer(length) ==
    /\ job.pc = "rendering" /\ ~job.docEnded /\ job.emitted < MaxChunks
    /\ job' =
          IF job.isCompleted THEN [job EXCEPT !.emitted = @ + 1]
          ELSE IF job.totalSize + length > PDF_SIZE_LIMIT
          THEN [job EXCEPT !.emitted = @ + 1,
                           !.totalSize = @ + length,
                           !.isCompleted = TRUE,
                           !.timeout.set = FALSE,
                           !.docDestroyed = TRUE,
                           !.promise = "rejected",
                           !.error = [text |-> "PDF size exceeded",
                                      n |-> job.totalSize + length]]
          ELSE [job EXCEPT !.emitted = @ + 1,
                           !.totalSize = @ + length,
                           !.chunks = Append(@, length)]
    /\ UNCHANGED <<workerRest, now>>

(* pdfDoc.on("data") *)
onData(length) ==
    /\ job.pc = "rendering" /\ ~job.docEnded /\ job.emitted < MaxChunks
    /\ job' =
          IF job.isCompleted THEN [job EXCEPT !.emitted = @ + 1]
          ELSE IF job.totalSize + length > PDF_SIZE_LIMIT
          THEN [job EXCEPT !.emitted = @ + 1,
                           !.totalSize = @ + length,
                           !.isCompleted = TRUE,
                           !.timeout.set = FALSE,
                           !.docDestroyed = TRUE,
                           !.chunks = <<>>,
                           !.promise = "rejected",
                           !.error = [text |-> "PDF size exceeded",
                                      n |-> job.totalSize + length]]
          ELSE [job EXCEPT !.emitted = @ + 1,
                           !.totalSize = @ + length,
                           !.chunks = Append(@, length)]
    /\ UNCHANGED <<workerRest, now>>

(* pdfDoc.on("end") *)
onEnd ==
    /\ job.pc = "rendering" /\ ~job.docEnded
    /\ job' =
          IF job.isCompleted THEN [job EXCEPT !.docEnded = TRUE]
          ELSE [job EXCEPT !.docEnded = TRUE,
                           !.isCompleted = TRUE,
                           !.timeout.set = FALSE,
                           !.resolvedBytes = SumOf(job.chunks),
                           !.chunks = <<>>,
                           !.promise = "resolved"]
    /\ UNCHANGED <<workerRest, now>>

(* pdfDoc.on("error") *)
onError ==
    /\ job.pc = "rendering" /\ ~job.docEnded
    /\ job' =
          IF job.isCompleted THEN [job EXCEPT !.docEnded = TRUE]
          ELSE [job EXCEPT !.docEnded = TRUE,
                           !.isCompleted = TRUE,
                           !.timeout.set = FALSE,
                           !.chunks = <<>>,
                           !.promise = "rejected",
                           !.error = [text |-> "PDFKit error", n |-> 0]]
    /\ UNCHANGED <<workerRest, now>>

(* The setTimeout callback.  It is created outside the try block that
   declares pdfDoc, so pdfDoc.destroy() throws a ReferenceError after
   isCompleted has been set: the statements after it do not run, and the
   exception, uncaught in a timer callback, ends the worker thread. *)
onTimeout ==
    /\ job.pc = "rendering"
    /\ job.timeout.set
    /\ now - job.timeout.at >= job.timeout.delay
    /\ job' =
          IF job.isCompleted THEN [job EXCEPT !.timeout.set = FALSE]
          ELSE [job EXCEPT !.timeout.set = FALSE,
                           !.expired = TRUE,
                           !.isCompleted = TRUE,
                           !.uncaught = "pdfDoc is not defined",
                           !.pc = "thread_exited"]
    /\ UNCHANGED <<workerRest, now>>

NextWorker ==
    \/ \E given \in GivenJobTimeouts : generatePdfBuffer(given)
    \/ \E length \in ChunkLengths : onData(length)
    \/ onEnd
    \/ onError
    \/ onTimeout
    \/ Tick

SpecWorker == InitStream /\ [][NextWorker]_vars

-----------------------------------------------------------------------------
(* getStats().errorRate, in hundredths of a percent:
   renders > 0 ? ((errors / renders) * 100).toFixed(2) : 0 *)
errorRate ==
    IF stats.renders > 0 THEN ToFixed2(stats.errors * 100, stats.renders) ELSE 0

(* isHealthy(); piscina.queueSize is the number of dispatches the pool has
   queued *)
isHealthy ==
    /\ threads > 0
    /\ JobCount(loops, "queued") * 10 < maxQueue * 9
    /\ errorRate < 500
    /\ Len(retryQueue) < 100
    /\ Cardinality(stuckTasks) < 5
    /\ Cardinality(DOMAIN taskExecutionTimes) < maxThreads * 3

-----------------------------------------------------------------------------
(* Observations used by the properties *)

LoopsOf(t) == {l \in BagToSet(loops) : l.task = t}

(* dispatches of task t whose promise is still pending *)
InFlightCount(t) ==
    LET S == {l \in LoopsOf(t) : l.pc = "await_run"}
    IN  BagCardinality([l \in S |-> loops[l]])

DlqEntriesOf(t) == {i \in 1..Len(dlq) : dlq[i].taskId = t}

QueuedIds == {retryQueue[i] : i \in 1..Len(retryQueue)}

(* C1: for every task, the number of worker dispatches never exceeds its
   effective maxRetries, whatever the interleaving of the retry loop, the
   worker checks and the retry-queue sweeps. *)
C1_DispatchesWithinMaxRetries ==
    \A t \in DOMAIN tasks : hist[t].dispatches <= tasks[t].maxRetries

(* a task that used its whole budget of 3 while a sweep's dispatch was pending *)
C1_Witness ==
    \E t \in DOMAIN tasks :
        /\ tasks[t].maxRetries = maxRetries
        /\ hist[t].dispatches = maxRetries
        /\ stats.workerCrashes > 0
        /\ \E l \in LoopsOf(t) : l.origin = "sweep" /\ l.pc = "await_run"
        /\ \E l \in LoopsOf(t) : l.origin = "caller"

(* C2: the wait inserted after the k-th attempt failed is
   calculateRetryDelay(k) = retryDelay * retryBackoff^(k-1), which is 1000,
   1500, 2250 ms for k = 1, 2, 3. *)
C2_BackoffFollowsFailedAttempt ==
    /\ CalcNum(1) = 1000 * CalcDen(1)
    /\ CalcNum(2) = 1500 * CalcDen(2)
    /\ CalcNum(3) = 2250 * CalcDen(3)
    /\ \A l \in BagToSet(loops) :
           l.pc = "await_delay" =>
               CalcNum(l.delayK) * CalcDen(l.attemptNo)
                   = CalcNum(l.attemptNo) * CalcDen(l.delayK)

(* C3: a task never has two dispatches pending at once, and none is made
   while a backoff of the task is still running. *)
C3_AttemptsSequential ==
    \A t \in DOMAIN tasks :
        /\ InFlightCount(t) <= 1
        /\ InFlightCount(t) = 1 => \A l \in LoopsOf(t) : l.pc = "await_run"

(* C4: over its lifetime a task adds at most 1 to stats.renders and at most 1
   to stats.recovered; nothing to recovered when its first dispatch succeeds;
   exactly 1 to each when two dispatches fail and the third succeeds. *)
C4_RecoveredAndRendersOncePerTask ==
    \A t \in DOMAIN tasks :
        /\ hist[t].renders <= 1
        /\ hist[t].recovered <= 1
        /\ (caller[t].st = "resolved" /\ caller[t].n = 1) => hist[t].recovered = 0
        /\ (hist[t].succeeded > 0 /\ Len(tasks[t].errors) = 2 /\ hist[t].dispatches = 3
                /\ InFlightCount(t) = 0 /\ LoopsOf(t) = {})
             => (hist[t].recovered = 1 /\ hist[t].renders = 1)

(* C5: renderToBuffer rejects only once the task's attempts have reached
   maxRetries, and once; every attempt error is recorded in the task's errors,
   and every one met with budget left schedules a retry instead. *)
C5_RejectsOnlyWhenExhausted ==
    \A t \in DOMAIN tasks :
        /\ caller[t].st = "rejected" => tasks[t].attempts >= tasks[t].maxRetries
        /\ stats.errors = Cardinality({u \in DOMAIN tasks : caller[u].st = "rejected"})
        /\ Len(tasks[t].errors)
               = hist[t].dispatches - InFlightCount(t) - hist[t].succeeded
        /\ hist[t].retries
               = Cardinality({i \in 1..Len(tasks[t].errors) :
                                  tasks[t].errors[i].attempt < tasks[t].maxRetries})

(* a caller rejected after three recorded attempt errors and two retries *)
C5_Witness ==
    \E t \in DOMAIN tasks :
        /\ caller[t].st = "rejected"
        /\ caller[t].text = "Task failed after"
        /\ Len(tasks[t].errors) = maxRetries
        /\ hist[t].retries = maxRetries - 1

(* C6: a dispatch the pool refuses because its queue is full ends the task at
   once: the caller is rejected with that error, no backoff, no more dispatch. *)
C6_QueueFullFailsImmediately ==
    \A t \in DOMAIN tasks :
        \A i \in 1..Len(tasks[t].errors) :
            tasks[t].errors[i].error = QueueFullMsg =>
                /\ i = Len(tasks[t].errors)
                /\ caller[t].st = "rejected"
                /\ caller[t].cause = QueueFullMsg
                /\ LoopsOf(t) = {}

(* C7: an invalid or oversized payload is rejected before any dispatch, adds
   1 to stats.errors and is never retried. *)
C7_InvalidPayloadNeverDispatched ==
    \A t \in DOMAIN tasks :
        validateDocDefinition(tasks[t].payload) # "" =>
            /\ hist[t].dispatches = 0
            /\ hist[t].retries = 0
            /\ caller[t].st = "rejected"

(* C8: a drop of the pool below minThreads is counted once in
   stats.workerCrashes however many worker checks see it, and a check that
   sees it puts every active task with budget left in the retry queue. *)
C8_CrashCountedOncePerDrop ==
    [][stats'.workerCrashes # stats.workerCrashes =>
          /\ crashesThisDrop' = 1
          /\ \A t \in activeTasks :
                 tasks[t].attempts < tasks[t].maxRetries => t \in QueuedIds']_vars

(* C9: when the caller's own dispatch was lost with its worker and a
   re-dispatch of the task has returned bytes, the caller is settled with them.
   Final form: once nothing of the task is scheduled any more, the caller's
   promise is resolved. *)
C9_CallerSettlesAfterRedispatch ==
    \A t \in DOMAIN tasks :
        (/\ \E l \in LoopsOf(t) : l.origin = "caller" /\ l.job = "lost"
         /\ hist[t].succeeded > 0
         /\ \A l \in LoopsOf(t) : l.job = "lost"
         /\ t \notin QueuedIds)
            => caller[t].st = "resolved"

(* C10: a task that exhausted maxRetries is out of activeTasks and has one
   dead-letter entry, with its id, its attempt count and the message of its
   last error. *)
C10_ExhaustedTaskDeadLetteredOnce ==
    \A t \in DOMAIN tasks :
        /\ Cardinality(DlqEntriesOf(t)) <= 1
        /\ caller[t].st = "rejected" =>
              /\ t \notin activeTasks
              /\ Cardinality(DlqEntriesOf(t)) = 1
              /\ \A i \in DlqEntriesOf(t) :
                     /\ dlq[i].attempts = tasks[t].attempts
                     /\ tasks[t].errors # <<>>
                     /\ dlq[i].dlqReason.cause
                            = tasks[t].errors[Len(tasks[t].errors)].error

(* C11: a sweep of the hang detector flags a task only for an execution
   record older than hangThreshold (strictly), and a record that a sweep has
   seen beyond the threshold has been counted in stats.hungTasks and announced
   by task-hung exactly once, however many sweeps have passed over it. *)
C11_FlaggedOncePerRecord ==
    \A t \in DOMAIN taskExecutionTimes :
        /\ hist[t].recordFlags <= 1
        /\ hist[t].recordFlags = 1 =>
               now - taskExecutionTimes[t] > options.hangThreshold
        /\ hist[t].sweptOver => hist[t].recordFlags = 1

(* C12: a sweep of the hang detector that flags something changes stuckTasks
   and stats.hungTasks and nothing else: the tasks and their attempts,
   activeTasks, the retry queue, the execution records, the pending dispatches,
   the callers and the pool stay as they were. *)
C12_DetectorOnlyFlags ==
    [][stats'.hungTasks # stats.hungTasks =>
          /\ UNCHANGED <<tasks, activeTasks, retryQueue, taskExecutionTimes, loops,
                         caller, dlq, threads, lastWorkerCrash>>
          /\ stats' = [stats EXCEPT !.hungTasks = stats'.hungTasks]
          /\ stuckTasks \subseteq stuckTasks']_vars

(* a task flagged as stuck whose dispatch is still running, record in place *)
C12_Witness ==
    \E t \in stuckTasks :
        /\ stats.hungTasks = 1
        /\ t \in DOMAIN taskExecutionTimes
        /\ t \in activeTasks
        /\ \E l \in LoopsOf(t) : l.pc = "await_run" /\ l.job = "running"

(* C13: every constructed service has hangThreshold strictly greater than
   taskTimeout, whatever options the caller gave. *)
C13_HangThresholdAboveTaskTimeout ==
    options.hangThreshold > options.taskTimeout

(* C14: a dispatch that runs into its timeout is handled as any failed
   attempt: the execution record is deleted, an entry is appended to the
   task's errors, marked wasStuck exactly when the detector had flagged the
   task, and then the task waits for a retry if attempts < maxRetries, and
   otherwise leaves activeTasks and gets a dead-letter entry. *)
C14_TimeoutHandledAsFailedAttempt ==
    [][\A t \in DOMAIN tasks :
          LET errs == tasks'[t].errors
          IN  (Len(errs) = Len(tasks[t].errors) + 1 /\ errs[Len(errs)].error = TimeoutMsg) =>
                  /\ t \notin DOMAIN taskExecutionTimes'
                  /\ errs[Len(errs)].attempt = tasks[t].attempts
                  /\ errs[Len(errs)].wasStuck = (t \in stuckTasks)
                  /\ t \notin stuckTasks'
                  /\ IF tasks[t].attempts < tasks[t].maxRetries
                     THEN /\ stats'.retries = stats.retries + 1
                          /\ \E l \in BagToSet(loops') :
                                 l.task = t /\ l.pc = "await_delay" /\ l.since = now
                                     /\ l.delayK = tasks[t].attempts
                          /\ dlq' = dlq /\ caller' = caller /\ activeTasks' = activeTasks
                     ELSE /\ t \notin activeTasks'
                          /\ Len(dlq') = Len(dlq) + 1
                          /\ dlq'[Len(dlq')].taskId = t
                          /\ dlq'[Len(dlq')].dlqReason.cause = TimeoutMsg]_vars

(* a flagged dispatch that timed out and waits for its retry, and one whose
   timeout was the last attempt *)
C14_Witness ==
    \E t \in DOMAIN tasks :
        \E i \in 1..Len(tasks[t].errors) :
            /\ tasks[t].errors[i].error = TimeoutMsg
            /\ tasks[t].errors[i].wasStuck
            /\ tasks[t].maxRetries = 2
            /\ i = 1
            /\ \E l \in LoopsOf(t) : l.pc = "await_delay" /\ l.origin = "caller"

(* C15: a submission whose first dispatch succeeds resolves with the worker's
   bytes; it has added 1 to renders and nothing to retries and recovered (nor
   to errors: the caller is not rejected), and the task is left in none of
   activeTasks, taskExecutionTimes, stuckTasks. *)
C15_FirstDispatchSuccessIsClean ==
    \A t \in DOMAIN tasks :
        (caller[t].st = "resolved" /\ caller[t].n = 1) =>
            /\ caller[t].text = "bytes"
            /\ hist[t].renders = 1
            /\ hist[t].retries = 0
            /\ hist[t].recovered = 0
            /\ t \notin activeTasks
            /\ t \notin DOMAIN taskExecutionTimes
            /\ t \notin stuckTasks

(* C16: when every dispatch eventually resolves or rejects, every
   renderToBuffer call is eventually settled, with bytes or with an error,
   also the calls made while the pool's queue is full. *)
C16_EveryCallSettles ==
    \A t \in 1..MaxBurstTasks :
        (t \in DOMAIN caller /\ caller[t].st = "pending")
            ~> (t \in DOMAIN caller /\ caller[t].st # "pending")

(* a call refused by the full queue on its first dispatch, settled later *)
C16_Witness ==
    \E t \in DOMAIN tasks :
        /\ tasks[t].errors # <<>>
        /\ tasks[t].errors[1].error = QueueFullMsg
        /\ caller[t].st # "pending"

(* C17: when the caller's abort signal fires under a pending dispatch, the
   dispatch fails with the cancellation error and the task ends there: the
   caller is rejected with it, no backoff is waited and nothing more is
   dispatched. *)
C17_AbortEndsTheTask ==
    \A t \in DOMAIN tasks :
        \A i \in 1..Len(tasks[t].errors) :
            tasks[t].errors[i].error = AbortMsg =>
                /\ i = Len(tasks[t].errors)
                /\ caller[t].st = "rejected"
                /\ caller[t].cause = AbortMsg
                /\ \A l \in LoopsOf(t) : l.pc # "await_delay"

(* C18: whatever add() and clear() calls were made, the dead letter queue
   holds at most maxSize entries and they are, in the order of their adding,
   the most recent ones added since the queue was last cleared: an add at
   capacity drops the oldest entry only. *)
C18_DlqKeepsMostRecent ==
    LET n == Len(dlqAdded)
        k == IF n < dlqOptions.maxSize THEN n ELSE dlqOptions.maxSize
    IN  /\ Len(dlq) <= dlqOptions.maxSize
        /\ dlq = SubSeq(dlqAdded, n - k + 1, n)

(* a queue of capacity 2 that has evicted twice and holds two different entries *)
C18_Witness ==
    /\ dlqOptions.maxSize = 2
    /\ Len(dlqAdded) = 4
    /\ Len(dlq) = 2
    /\ dlq[1].taskId # dlq[2].taskId
    /\ dlqAdded[1].taskId # dlq[1].taskId

(* C19: whatever tracker operations were made, no request id is in two of
   the maps active, completed, failed; a request with status completed is in
   the completed map only and one with status failed in the failed map only. *)
C19_RequestInOneMap ==
    /\ DOMAIN activeRequests \cap DOMAIN completedRequests = {}
    /\ DOMAIN activeRequests \cap DOMAIN failedRequests = {}
    /\ DOMAIN completedRequests \cap DOMAIN failedRequests = {}
    /\ \A id \in DOMAIN activeRequests :
           activeRequests[id].status \notin {"completed", "failed"}
    /\ \A id \in DOMAIN completedRequests : completedRequests[id].status = "completed"
    /\ \A id \in DOMAIN failedRequests : failedRequests[id].status = "failed"

(* one request was completed after a recovery, the other failed for good *)
C19_Witness ==
    /\ trackerStats.recovered > 0
    /\ DOMAIN completedRequests # {}
    /\ DOMAIN failedRequests # {}
    /\ DOMAIN activeRequests = {}

(* C20: no step of the service lowers renders, errors, retries, recovered,
   workerCrashes or hungTasks; stats.timings never has more than maxTimings
   entries, and when it changes, the new duration was pushed at the end after
   the oldest entry was shifted out of a full buffer. *)
C20_CountersGrowTimingsBounded ==
    /\ [](Len(stats.timings) <= maxTimings)
    /\ [][ /\ stats'.renders >= stats.renders
           /\ stats'.errors >= stats.errors
           /\ stats'.retries >= stats.retries
           /\ stats'.recovered >= stats.recovered
           /\ stats'.workerCrashes >= stats.workerCrashes
           /\ stats'.hungTasks >= stats.hungTasks
           /\ stats'.timings # stats.timings =>
                 /\ stats'.renders = stats.renders + 1
                 /\ stats'.timings =
                       Append(IF Len(stats.timings) >= maxTimings
                              THEN Tail(stats.timings) ELSE stats.timings,
                              stats'.timings[Len(stats'.timings)]) ]_vars

(* the buffer was full, a retried render completed, and the oldest of the
   earlier durations is gone *)
C20_Witness ==
    /\ stats.renders = maxTimings + 1
    /\ Len(stats.timings) = maxTimings
    /\ stats.timings[1] = 2 * TickMs
    /\ stats.retries > 0

(* C21: the chunks renderToStream writes are consecutive pieces of the
   buffer, each at most chunkSize bytes; no write is issued between a write
   that returned false and the sink's drain; end is called once, after all of
   the buffer has been written, and nothing is written after it. *)
C21_StreamWritesChunksInOrder ==
    /\ [](stream.pc \in {"await_drain", "ended"} =>
            /\ \A i \in 1..Len(stream.writes) :
                   Len(stream.writes[i]) \in 1..stream.chunkSize
            /\ Concat(stream.writes) =
                   SubSeq(stream.buffer, 1, stream.offset + stream.chunk)
            /\ ~stream.wroteBeforeDrain
            /\ stream.ends = IF stream.pc = "ended" THEN 1 ELSE 0
            /\ stream.pc = "ended" => Concat(stream.writes) = stream.buffer)
    /\ [][stream.pc = "ended" =>
             /\ stream'.pc = "ended"
             /\ stream'.writes = stream.writes
             /\ stream'.ends = 1]_vars

(* a buffer of four bytes went out as a chunk of three bytes and a chunk of
   one, the loop having waited for drain after the first, and the sink has
   flushed both *)
C21_Witness ==
    /\ stream.pc = "ended"
    /\ Len(stream.buffer) = MaxBufLen
    /\ stream.chunkSize = 3
    /\ Len(stream.writes) = 2
    /\ stream.highWaterMark = 2
    /\ stream.sinkLength = 0

(* C22: once close() has completed, the worker pool is destroyed and neither
   the worker check nor the retry-queue sweep nor the hang detection runs
   again. *)
C22_NothingRunsAfterClose ==
    life.closePc = "closed" => life.destroyed /\ life.ranAfterClose = {}

(* C23: whatever the number of CPU cores, the cpuOversubscription a default
   service reports is maxThreads * concurrentTasksPerWorker / cores (to two
   decimals), and it lies between 0.5 and 1.0. *)
C23_OversubscriptionWithinBounds ==
    host # NoHost /\ host.reported =>
        /\ host.cpuOversubscription =
              ToFixed2(host.maxThreads * host.concurrentTasksPerWorker, host.cpuCount)
        /\ host.cpuOversubscription <= 100
        /\ host.cpuOversubscription >= 50

(* C24: when the time budget of a job expires before its render has
   finished, the job is rejected with the timeout error, the buffered chunks
   are discarded, the render is aborted, and nothing the render emits later
   changes that outcome. *)
C24_TimeoutFailsTheJob ==
    job # NoJob /\ job.expired =>
        /\ job.promise = "rejected"
        /\ job.error.text = "Timeout after 30000ms"
        /\ job.chunks = <<>>
        /\ job.docDestroyed

(* C25: the buffered bytes of a job never exceed PDF_SIZE_LIMIT; the data
   event that takes the running total above it rejects the job with the size
   error, empties the buffer and destroys the document, and the buffer stays
   empty from then on. *)
C25_BufferStaysBelowCeiling ==
    /\ [](job # NoJob => SumOf(job.chunks) <= PDF_SIZE_LIMIT)
    /\ [](job # NoJob /\ job.totalSize > PDF_SIZE_LIMIT =>
            /\ job.promise = "rejected"
            /\ job.error = [text |-> "PDF size exceeded", n |-> job.totalSize]
            /\ job.chunks = <<>>
            /\ job.docDestroyed)
    /\ [][job # NoJob /\ job.totalSize > PDF_SIZE_LIMIT =>
              job'.totalSize = job.totalSize]_vars

(* two chunks were buffered, the third took the total above the ceiling, and
   the document has ended since *)
C25_Witness ==
    /\ job # NoJob
    /\ job.emitted = MaxChunks
    /\ job.totalSize = PDF_SIZE_LIMIT + 1
    /\ job.promise = "rejected"
    /\ job.docEnded

(* C26: isHealthy() is true for a service that has just been constructed,
   and false whenever no worker is live, the pool queue holds 90% of maxQueue
   or more, the terminal errors are 5% of the renders or more, 100 or more
   tasks wait in the retry queue, or 5 or more tasks are flagged stuck. *)
C26_HealthFollowsThresholds ==
    /\ (DOMAIN tasks = {} /\ threads >= minThreads /\ stats = NewStats) => isHealthy
    /\ (\/ threads = 0
        \/ JobCount(loops, "queued") * 10 >= maxQueue * 9
        \/ stats.errors > 0 /\ stats.errors * 100 >= 5 * stats.renders
        \/ Len(retryQueue) >= 100
        \/ Cardinality(stuckTasks) >= 5) => ~isHealthy

(* C27: once the renderToBuffer call of a task has settled, no step makes a
   dispatch for the task, changes its attempts, counts a retry or a recovery
   for it, or emits task-failed for it. *)
C27_SettledTaskIsLeftAlone ==
    [][\A t \in DOMAIN tasks :
          caller[t].st # "pending" =>
              /\ hist'[t].dispatches = hist[t].dispatches
              /\ tasks'[t].attempts = tasks[t].attempts
              /\ hist'[t].retries = hist[t].retries
              /\ hist'[t].recovered = hist[t].recovered
              /\ hist'[t].failedEvents = hist[t].failedEvents]_vars

(* C28: task-failed is emitted at most once for a task, which then has at most
   one dead-letter entry, and never for a task whose caller gets bytes. *)
C28_TaskFailedOnceAndOnlyForFailures ==
    \A t \in DOMAIN tasks :
        /\ hist[t].failedEvents <= 1
        /\ Cardinality(DlqEntriesOf(t)) <= 1
        /\ caller[t].st = "resolved" => hist[t].failedEvents = 0

(* C29: a caller is rejected only when no dispatch of its task has returned
   bytes, whoever started the dispatch. *)
C29_RejectedOnlyIfNoDispatchSucceeded ==
    \A t \in DOMAIN tasks :
        caller[t].st = "rejected" => hist[t].succeeded = 0

(* C30: between two steps of the coordinator, a task has an execution record
   exactly when one of its dispatches is in flight, and the record holds the
   time at which that dispatch was made. *)
C30_RecordIffDispatchInFlight ==
    \A t \in DOMAIN tasks :
        /\ t \in DOMAIN taskExecutionTimes <=> InFlightCount(t) > 0
        /\ t \in DOMAIN taskExecutionTimes =>
               taskExecutionTimes[t] = tasks[t].lastAttemptAt

(* C31: the retry queue never holds the same task more than once, however
   many worker-crash checks run while the task is active. *)
C31_RetryQueueHoldsTaskOnce ==
    \A i, j \in 1..Len(retryQueue) : retryQueue[i] = retryQueue[j] => i = j

(* C32: a retry-queue sweep removes from the queue and re-dispatches exactly
   the tasks whose time since the last attempt has reached
   calculateRetryDelay(attempts); the other queued tasks stay queued in their
   places.  (Only a sweep shortens the queue; it leaves its re-dispatches in
   flight when it returns.) *)
C32_SweepRedispatchesExactlyTheReady ==
    [][Len(retryQueue') < Len(retryQueue) =>
          /\ retryQueue' = SelectSeq(retryQueue, LAMBDA t : ~RetryReady(Svc, t))
          /\ \A t \in DOMAIN tasks :
                 hist'[t].dispatches > hist[t].dispatches
                     <=> \E i \in 1..Len(retryQueue) :
                             retryQueue[i] = t /\ RetryReady(Svc, t)]_vars

(* C33: if drain() returns before its 10-second bound has elapsed, no
   dispatch of any task is in flight, no task is waiting in backoff, and the
   pool queue is empty. *)
C33_EarlyDrainMeansNoWork ==
    [][(/\ life.drain.pc # "returned"
        /\ life'.drain.pc = "returned"
        /\ now' - life'.drain.startTime < drainMaxWait)
          => \A l \in BagToSet(loops') :
                 /\ ~(l.pc = "await_run" /\ l.job \in {"running", "queued", "lost"})
                 /\ l.pc # "await_delay"]_vars

(* C34: stats.hungTasks counts each task at most once over the task's
   lifetime, even when the task exceeds hangThreshold on more than one of its
   attempts: the counter never exceeds the number of tasks submitted. *)
C34_HungCountedOncePerTask == stats.hungTasks <= Cardinality(DOMAIN tasks)

(* C35: between coordinator steps every task id in stuckTasks has an
   execution record, so stuckTasksCount <= currentlyExecuting and a task that
   is no longer executing is never reported as stuck. *)
C35_StuckTasksHaveRecords ==
    /\ stuckTasks \subseteq DOMAIN taskExecutionTimes
    /\ Cardinality(stuckTasks) <= Cardinality(DOMAIN taskExecutionTimes)

(* a task whose first attempt was flagged and failed (flag and record were
   dropped together) is flagged again during a later attempt *)
C35_Witness ==
    \E t \in stuckTasks :
        /\ Len(tasks[t].errors) >= 1
        /\ tasks[t].errors[1].wasStuck
        /\ t \in DOMAIN taskExecutionTimes

(* C36: for every n >= 0, getRecent(n) returns exactly the min(n, size) most
   recently added entries, oldest first. *)
C36_GetRecentReturnsTheLastN ==
    [][(returned' # returned /\ returned'.call = "getRecent") =>
          LET n    == returned'.limit
              k    == IF n < Len(dlq) THEN n ELSE Len(dlq)
              last == Len(dlqAdded)
          IN  returned'.value = SubSeq(dlqAdded, last - k + 1, last)]_vars

(* C38: failRequest on an active request with attempts < maxRetries sets its
   status to retry_pending, keeps it in the active map and returns
   shouldRetry = true; with attempts >= maxRetries it moves the request to
   the failed map with status failed and returns shouldRetry = false; on an
   id that is not active it returns null and changes no map and no counter. *)
C38_FailRequestOutcomes ==
    [][(returned' # returned /\ returned'.call = "failRequest") =>
          LET id == returned'.id
          IN  IF id \notin DOMAIN activeRequests
              THEN /\ returned'.value.null
                   /\ UNCHANGED <<activeRequests, completedRequests, failedRequests,
                                  trackerStats>>
              ELSE IF activeRequests[id].attempts < activeRequests[id].maxRetries
              THEN /\ ~returned'.value.null /\ returned'.value.shouldRetry
                   /\ id \in DOMAIN activeRequests'
                   /\ activeRequests'[id].status = "retry_pending"
                   /\ id \notin DOMAIN failedRequests'
              ELSE /\ ~returned'.value.null /\ ~returned'.value.shouldRetry
                   /\ id \notin DOMAIN activeRequests'
                   /\ id \in DOMAIN failedRequests'
                   /\ failedRequests'[id].status = "failed"]_vars

(* the three cases have happened: a request was put back for a retry, another
   is in the failed map, and the last call, on an id that was not active,
   returned null *)
C38_Witness ==
    /\ returned.call = "failRequest" /\ returned.value.null
    /\ \E id \in DOMAIN activeRequests : activeRequests[id].status = "retry_pending"
    /\ \E id \in DOMAIN failedRequests : failedRequests[id].status = "failed"

(* C39: after any sequence of RequestTracker operations, stats.active equals
   the size of the active map and stats.total = stats.active +
   stats.completed + stats.failed. *)
C39_TrackerCountersAgree ==
    /\ trackerStats.active = Cardinality(DOMAIN activeRequests)
    /\ trackerStats.total =
           trackerStats.active + trackerStats.completed + trackerStats.failed

(* one request completed and one failed for good, and cleanup has already
   evicted the completed one from its map *)
C39_Witness ==
    /\ trackerStats.completed = 1
    /\ trackerStats.failed = 1
    /\ DOMAIN completedRequests = {}
    /\ DOMAIN failedRequests # {}

(* C40: for every tracked request, attempts never exceeds maxRetries after any
   sequence of startRequest, failRequest and recoverInFlightRequests calls. *)
C40_AttemptsWithinMaxRetries ==
    /\ \A id \in DOMAIN activeRequests :
           activeRequests[id].attempts <= activeRequests[id].maxRetries
    /\ \A id \in DOMAIN failedRequests :
           failedRequests[id].attempts <= failedRequests[id].maxRetries
    /\ \A id \in DOMAIN completedRequests :
           completedRequests[id].attempts <= completedRequests[id].maxRetries

(* C37: every request created by the tracker middleware leaves the active
   map once its response has been sent or its timeout check has fired, ending
   in the completed or the failed map (from which cleanup evicts it). *)
C37_AnsweredRequestLeavesActive ==
    \A id \in DOMAIN closures :
        (closures[id].responded \/ closures[id].timer = "fired")
            => id \notin DOMAIN activeRequests

====
